---- MODULE Spec2Model ----
(***************************************************************************)
(* Model of the OrderCloud MCP adapter's authentication and dispatch core: *)
(*   - OrderCloudAuth (ordercloud-auth, src/unnamed/part_000): credential  *)
(*     state, cached bearer token, password-grant exchange;                *)
(*   - OrderCloudClient.makeRequest (src/unnamed/part_001): the retry loop *)
(*     around one resource call, classifying errors by message text;       *)
(*   - the facade OrderCloudClient (src/unnamed/part_004) with BaseClient  *)
(*     sub-clients that each hold a copy of the access token.              *)
(*                                                                         *)
(* Text is modelled as a sequence of glyphs.  A glyph is either a single   *)
(* decimal digit ("0".."9") or a piece of text that holds no digit.  The   *)
(* only patterns the code searches for are all-digit ("400", "401", "403", *)
(* "404"), so a substring search over the glyphs finds exactly what        *)
(* String.prototype.includes finds over the characters.                    *)
(*                                                                         *)
(* Time is in milliseconds, as Date.now() and setTimeout count it.         *)
(***************************************************************************)
EXTENDS Integers, Sequences, FiniteSets, TLC

VARIABLES
    credentials,    \* OrderCloudAuth.credentials: Null or <<record>>
    token,          \* OrderCloudAuth.token: Null or <<record>>
    tokenExpiry,    \* OrderCloudAuth.tokenExpiry: Null or <<ms>>
    now,            \* the wall clock, ms
    ticks,          \* how many times the model has advanced the clock
    issued,         \* token endpoint: how many access tokens it has issued
    call,           \* one record per concurrent tool invocation (async task)
    accessToken,    \* facade client: BaseClient.accessToken of the auth sub-client and of each facade
    fcall,          \* facade client: one record per authenticate call (constructor or tool)
    fIssued,        \* facade client: how many access tokens the token endpoint has issued
    lastAuth,       \* facade client: what the latest successful authenticate call returned
    lastRequest,    \* facade client: the latest facade operation and what it put on the wire
    facadeScope,    \* facade client: OrderCloudClient.scope, the scope string it was constructed with
    batch,          \* batchCreateProducts: the one invocation, its createProduct calls and its results
    health,         \* healthCheck: Null or <<the record its latest invocation returned>>
    debug,          \* DebugLogger: the stored log and the array a caller got from getLogs
    boot            \* start-up: the environment and how far main.ts and the helper got

authVars == <<credentials, token, tokenExpiry, now, ticks, issued, call>>
facadeVars == <<accessToken, fcall, fIssued, lastAuth, lastRequest, facadeScope>>
auxVars == <<batch, health, debug, boot>>
vars == <<credentials, token, tokenExpiry, now, ticks, issued, call,
          accessToken, fcall, fIssued, lastAuth, lastRequest, facadeScope,
          batch, health, debug, boot>>

-----------------------------------------------------------------------------
(* Bounds of the model *)

NumTasks == 2
MaxTicks == 3
MaxTime == 8000
MaxIssued == 3
MaxProducts == 12
MaxLogged == 103
MaxMutations == 1

Tasks == 1..NumTasks

-----------------------------------------------------------------------------
(* Program constants *)

retryAttempts == 3
retryDelay == 1000
SafetyMarginSeconds == 300
MsPerSecond == 1000
batchSize == 10
maxLogs == 100

-----------------------------------------------------------------------------
(* Optional values: null is the empty sequence, a value v is <<v>> *)

Null == << >>
Some(v) == << v >>

-----------------------------------------------------------------------------
(* Text *)

Digit == << "0", "1", "2", "3", "4", "5", "6", "7", "8", "9" >>

\* `${response.status}` for a three-digit status
StatusText(n) == << Digit[(n \div 100) + 1], Digit[((n \div 10) % 10) + 1], Digit[(n % 10) + 1] >>

\* String.prototype.includes
Includes(msg, pat) ==
    \E i \in 1..(Len(msg) - Len(pat) + 1) : SubSeq(msg, i, i + Len(pat) - 1) = pat

RECURSIVE JoinWith(_, _)
\* Array.prototype.join over already rendered entries
JoinWith(parts, sep) ==
    IF Len(parts) = 0 THEN << >>
    ELSE IF Len(parts) = 1 THEN parts[1]
    ELSE parts[1] \o sep \o JoinWith(Tail(parts), sep)

-----------------------------------------------------------------------------
(* Inputs: credential sets, token-endpoint outcomes, resource outcomes *)

CredentialChoices ==
    { [username |-> "u", password |-> "p", clientId |-> "c", scope |-> Null],
      [username |-> "v", password |-> "q", clientId |-> "c", scope |-> Some(<< "FullAccess" >>)] }

\* credential sets with every shape of scope: unset, one name, no name, two names
ScopeCredentialChoices ==
    CredentialChoices \cup
    { [username |-> "w", password |-> "r", clientId |-> "c", scope |-> Some(<< >>)],
      [username |-> "x", password |-> "s", clientId |-> "c", scope |-> Some(<< "Shopper", "MeAdmin" >>)] }

\* the scope option the facade client may be constructed with: unset, the empty string, or
\* a string of scope names
FacadeScopeChoices == { Null, Some(<< >>), Some(<< "Shopper", " ", "MeAdmin" >>) }

\* expires_in values the token endpoint may grant (seconds)
ExpiresInChoices == { 300, 301, 600 }

\* lifetimes within the safety margin
ShortExpiresInChoices == { 1, 299, 300 }

\* how the token endpoint can fail one POST /oauth/token: a non-ok response, or a rejected
\* fetch.  text is the raw body (response.text()), or the message of the fetch error;
\* error_description and Message are the fields a JSON parse of the body would give.
AuthFailures ==
    { [kind |-> "reject", status |-> 401, statusText |-> << "Unauthorized" >>,
       text |-> << "{\"error\":\"invalid_grant\",\"error_description\":\"", "Bad credentials", "\"}" >>,
       error_description |-> Some(<< "Bad credentials" >>), Message |-> Null],
      [kind |-> "reject", status |-> 500, statusText |-> << "Internal Server Error" >>,
       text |-> << "{\"Message\":\"", "Upstream unavailable", "\"}" >>,
       error_description |-> Null, Message |-> Some(<< "Upstream unavailable" >>)],
      [kind |-> "reject", status |-> 401, statusText |-> << "Unauthorized" >>,
       text |-> << >>, error_description |-> Null, Message |-> Null],
      [kind |-> "network", status |-> 0, statusText |-> << >>,
       text |-> << "fetch failed" >>, error_description |-> Null, Message |-> Null] }

\* clock steps, ms
TickSteps == { 1000, 299000 }

NoBody == [parse |-> "fail", Errors |-> Null, Message |-> << >>]
JsonBody(errors, message) == [parse |-> "json", Errors |-> errors, Message |-> message]

HttpResponse(status, statusText, body) ==
    [kind |-> "http", status |-> status, statusText |-> statusText, body |-> body, text |-> << >>]

\* what one resource fetch can produce: a response, or a rejected fetch
ResourceOutcomes ==
    { HttpResponse(200, << "OK" >>, JsonBody(Null, << >>)),
      HttpResponse(404, << "Not Found" >>, NoBody),
      HttpResponse(400, << "Bad Request" >>,
                   JsonBody(Some(<< [ErrorCode |-> << "InvalidField" >>, Message |-> << "Name required" >>] >>), << >>)),
      HttpResponse(401, << "Unauthorized" >>, JsonBody(Null, << "Token expired" >>)),
      HttpResponse(403, << "Forbidden" >>, NoBody),
      HttpResponse(500, << "Internal Server Error" >>, NoBody),
      HttpResponse(500, << "Internal Server Error" >>,
                   JsonBody(Null, << "Product P", "4", "0", "4", "0", " unavailable" >>)),
      HttpResponse(503, << "Service Unavailable" >>,
                   JsonBody(Some(<< [ErrorCode |-> << "Busy" >>, Message |-> << "Try later" >>],
                                    [ErrorCode |-> << "Busy" >>, Message |-> << "Throttled" >>] >>), << >>)),
      [kind |-> "network", status |-> 0, statusText |-> << >>, body |-> NoBody, text |-> << "fetch failed" >>] }

\* an Authorization value a caller of makeRequest supplies itself
CallerAuthorization == [scheme |-> "Basic", token |-> [serial |-> 0, sub |-> "caller", iat |-> 0]]

\* options.headers as a caller of makeRequest may pass it: left out, an empty object, a key
\* the dispatcher does not set, each of the dispatcher's keys, and all of them
CallerHeaderChoices ==
    { Null,
      Some(<< >>),
      Some([XTrace |-> "abc"]),
      Some([ContentType |-> "text/plain"]),
      Some([Authorization |-> CallerAuthorization]),
      Some([Authorization |-> CallerAuthorization, ContentType |-> "text/plain", XTrace |-> "abc"]) }

\* further answers of a resource: an empty Errors array beside a Message, both an Errors
\* array and a Message, a JSON error body that holds neither, and a success with no body
AssemblyOutcomes ==
    ResourceOutcomes \cup
    { HttpResponse(500, << "Internal Server Error" >>, JsonBody(Some(<< >>), << "Ignored" >>)),
      HttpResponse(409, << "Conflict" >>,
                   JsonBody(Some(<< [ErrorCode |-> << "IdExists" >>, Message |-> << "Taken" >>] >>), << "Conflict" >>)),
      HttpResponse(422, << "Unprocessable Entity" >>, JsonBody(Null, << >>)),
      HttpResponse(204, << "No Content" >>, NoBody) }

-----------------------------------------------------------------------------
(* OrderCloudAuth *)

\* the expiry without the safety margin
ComputeExpiryNoMargin(at, expires_in) == at + expires_in * MsPerSecond

\* new Date(Date.now() + (authData.expires_in - 300) * 1000)
ComputeExpiry(at, expires_in) == at + (expires_in - SafetyMarginSeconds) * MsPerSecond

\* the cache check with the expiry instant itself still counted as valid
TokenValidInclusive(tok, expiry, at) == tok # Null /\ expiry # Null /\ at <= expiry[1]

\* this.token && this.tokenExpiry && new Date() < this.tokenExpiry
TokenValid(tok, expiry, at) == tok # Null /\ expiry # Null /\ at < expiry[1]

\* placeholder where no access token is carried
NoToken == [serial |-> 0, sub |-> "", iat |-> 0]

ConfigMsg == << "Credentials not set. Call setCredentials() first." >>

\* the error thrown for a non-ok token response
AuthFailedMsg(status, errorText) == << "Authentication failed: " >> \o StatusText(status) \o << " " >> \o errorText

\* the catch block of authenticate wraps whatever was thrown inside the try
WrapAuthError(msg) == << "Failed to authenticate with OrderCloud: " >> \o msg

\* authenticate() without the cache check: every call goes to the token endpoint
AuthSyncNoCache(at) ==
    IF credentials = Null THEN [tag |-> "throw", tok |-> NoToken, msg |-> ConfigMsg]
    ELSE [tag |-> "post", tok |-> NoToken, msg |-> << >>]

\* authenticate() with the credentials check moved inside the try block
AuthSyncCheckInsideTry(at) ==
    IF credentials = Null THEN [tag |-> "throw", tok |-> NoToken, msg |-> WrapAuthError(ConfigMsg)]
    ELSE IF TokenValid(token, tokenExpiry, at) THEN [tag |-> "return", tok |-> token[1].access_token, msg |-> << >>]
    ELSE [tag |-> "post", tok |-> NoToken, msg |-> << >>]

\* authenticate() up to its first suspension: throw, return the cached token, or POST
AuthSync(at) ==
    IF credentials = Null THEN [tag |-> "throw", tok |-> NoToken, msg |-> ConfigMsg]
    ELSE IF TokenValid(token, tokenExpiry, at) THEN [tag |-> "return", tok |-> token[1].access_token, msg |-> << >>]
    ELSE [tag |-> "post", tok |-> NoToken, msg |-> << >>]

\* isAuthenticated() with the expiry instant itself still counted as valid
IsAuthenticatedInclusive(at) == token # Null /\ tokenExpiry # Null /\ at <= tokenExpiry[1]

\* isAuthenticated(): this.token !== null && this.tokenExpiry !== null && new Date() < this.tokenExpiry
IsAuthenticated(at) == token # Null /\ tokenExpiry # Null /\ at < tokenExpiry[1]

\* this.credentials.scope?.join(" ") || "FullAccess"
ScopeParam(scope) ==
    LET joined == IF scope = Null THEN << >>
                  ELSE JoinWith([i \in 1..Len(scope[1]) |-> << scope[1][i] >>], << " " >>)
    IN  IF joined = << >> THEN << "FullAccess" >> ELSE joined

\* the form fields of the token request
TokenRequestBody(cred) ==
    [grant_type |-> "password", username |-> cred.username, password |-> cred.password,
     client_id |-> cred.clientId, scope |-> ScopeParam(cred.scope)]

\* the token record authenticate() stores from the response
TokenFrom(authData) ==
    [access_token |-> authData.access_token, token_type |-> authData.token_type,
     expires_in |-> authData.expires_in, refresh_token |-> authData.refresh_token]

\* the header map with the token alone as the Authorization value
AuthHeadersBare(tok) == [Authorization |-> [scheme |-> "", token |-> tok], ContentType |-> "application/json"]

\* getAuthHeaders(): the header map built around authenticate()'s result
AuthHeaders(tok) == [Authorization |-> [scheme |-> "Bearer", token |-> tok], ContentType |-> "application/json"]

-----------------------------------------------------------------------------
(* OrderCloudClient.makeRequest *)

RenderError(err) == err.ErrorCode \o << ": " >> \o err.Message

RECURSIVE RenderAll(_)
RenderAll(errs) == IF Len(errs) = 0 THEN << >> ELSE << RenderError(Head(errs)) >> \o RenderAll(Tail(errs))

\* the message with the top-level Message preferred to the Errors array
ErrorMessageMessageFirst(resp) ==
    LET fallback == << "HTTP " >> \o StatusText(resp.status) \o << ": " >> \o resp.statusText
    IN  IF resp.body.parse # "json" THEN fallback
        ELSE IF resp.body.Message # << >> THEN resp.body.Message
        ELSE IF resp.body.Errors # Null THEN JoinWith(RenderAll(resp.body.Errors[1]), << ", " >>)
        ELSE fallback

\* the message built for a response that is not ok
ErrorMessage(resp) ==
    LET fallback == << "HTTP " >> \o StatusText(resp.status) \o << ": " >> \o resp.statusText
    IN  IF resp.body.parse # "json" THEN fallback
        ELSE IF resp.body.Errors # Null THEN JoinWith(RenderAll(resp.body.Errors[1]), << ", " >>)
        ELSE IF resp.body.Message # << >> THEN resp.body.Message
        ELSE fallback

\* the thrown message without the prefix
ApiErrorMsgNoPrefix(resp) == ErrorMessage(resp)

\* throw new Error(`OrderCloud API error: ${errorMessage}`)
ApiErrorMsg(resp) == << "OrderCloud API error: " >> \o ErrorMessage(resp)

\* "Don't retry on authentication errors or client errors (4xx)"
NoRetry(msg) ==
    \/ Includes(msg, << "4", "0", "1" >>)
    \/ Includes(msg, << "4", "0", "3" >>)
    \/ Includes(msg, << "4", "0", "0" >>)
    \/ Includes(msg, << "4", "0", "4" >>)

\* this.retryDelay * Math.pow(2, attempt)
BackoffDelay(attempt) == retryDelay * (2 ^ attempt)

\* the SyntaxError with which response.json() rejects when the body is not JSON
JsonSyntaxMsg == << "Unexpected end of JSON input" >>

NoResult == [kind |-> "none", value |-> Null, message |-> << >>]
Value(v) == [kind |-> "value", value |-> Some(v), message |-> << >>]
Error(msg) == [kind |-> "error", value |-> Null, message |-> msg]

\* no response received in this attempt
NoStatus == -1

IdleCall ==
    [pc |-> "idle", op |-> "none", method |-> "GET", headers |-> Null, attempt |-> 0, wakeAt |-> 0,
     reqCred |-> Null, posted |-> Null, sent |-> Null, lastError |-> << >>, result |-> NoResult,
     authPosts |-> 0, httpAttempts |-> 0, sleeps |-> << >>, status |-> NoStatus]

\* the call ends: the promise settles with r
Settle(c, r) == [c EXCEPT !.pc = "done", !.result = r]

\* the two header maps spread in the other order: the dispatcher's entries win
MergeHeadersDispatcherFirst(headers, optionsHeaders) ==
    IF optionsHeaders = Null THEN headers
    ELSE [k \in DOMAIN headers \cup DOMAIN optionsHeaders[1] |->
             IF k \in DOMAIN headers THEN headers[k] ELSE optionsHeaders[1][k]]

\* { ...headers, ...options.headers }: an object literal with two spreads; the later spread
\* overwrites the keys of the earlier one, and spreading undefined adds nothing
MergeHeaders(headers, optionsHeaders) ==
    IF optionsHeaders = Null THEN headers
    ELSE [k \in DOMAIN headers \cup DOMAIN optionsHeaders[1] |->
             IF k \in DOMAIN optionsHeaders[1] THEN optionsHeaders[1][k] ELSE headers[k]]

\* fetch(`${baseUrl}${endpoint}`, { ...options, headers: { ...headers, ...options.headers } })
SendResource(c, tok) ==
    [c EXCEPT !.pc = "res_wait", !.sent = Some(MergeHeaders(AuthHeaders(tok), c.headers)), !.httpAttempts = @ + 1]

RECURSIVE Catch(_, _, _)

\* authenticate() that posts a second time when its first request fails
AfterAuthRetrying(c, r, at) ==
    IF c.op = "authenticate"
    THEN IF r.tag = "throw"
         THEN IF c.authPosts = 1
              THEN [c EXCEPT !.pc = "auth_wait", !.reqCred = credentials,
                             !.posted = Some(TokenRequestBody(credentials[1])), !.authPosts = @ + 1]
              ELSE Settle(c, Error(r.msg))
         ELSE Settle(c, Value(r.tok))
    ELSE IF c.op = "getAuthHeaders"
    THEN IF r.tag = "throw" THEN Settle(c, Error(r.msg)) ELSE Settle(c, Value(AuthHeaders(r.tok)))
    ELSE IF r.tag = "throw" THEN Catch(c, r.msg, at) ELSE SendResource(c, r.tok)

\* what the caller of authenticate() does with its outcome r: a direct caller takes the
\* token or the error, getAuthHeaders() wraps the token in the header map and lets the error
\* through, and makeRequest goes on inside its try block
AfterAuth(c, r, at) ==
    IF c.op = "authenticate"
    THEN IF r.tag = "throw" THEN Settle(c, Error(r.msg)) ELSE Settle(c, Value(r.tok))
    ELSE IF c.op = "getAuthHeaders"
    THEN IF r.tag = "throw" THEN Settle(c, Error(r.msg)) ELSE Settle(c, Value(AuthHeaders(r.tok)))
    ELSE IF r.tag = "throw" THEN Catch(c, r.msg, at) ELSE SendResource(c, r.tok)

\* a call enters authenticate(): directly, or through getAuthHeaders() at the top of an attempt
EnterAuth(c, at) ==
    LET r == AuthSync(at)
        c0 == [c EXCEPT !.authPosts = 0, !.status = NoStatus]
    IN  IF r.tag = "post"
        THEN [c0 EXCEPT !.pc = "auth_wait", !.reqCred = credentials,
                        !.posted = Some(TokenRequestBody(credentials[1])), !.authPosts = @ + 1]
        ELSE AfterAuth(c0, r, at)

\* the loop with its bound off by one
LoopHeadOffByOne(c, at) ==
    IF c.attempt <= retryAttempts + 1 THEN EnterAuth(c, at) ELSE Settle(c, Error(c.lastError))

\* for (...; attempt <= this.retryAttempts; ...) and, past the loop, throw lastError
LoopHead(c, at) ==
    IF c.attempt <= retryAttempts THEN EnterAuth(c, at) ELSE Settle(c, Error(c.lastError))

\* the catch block that sleeps after every failed attempt, the last one too
CatchAlwaysSleeps(c, msg, at) ==
    LET c1 == [c EXCEPT !.lastError = msg]
    IN  IF NoRetry(msg) THEN Settle(c1, Error(msg))
        ELSE [c1 EXCEPT !.pc = "sleep",
                        !.wakeAt = at + BackoffDelay(c1.attempt),
                        !.sleeps = Append(@, BackoffDelay(c1.attempt))]

\* the catch block of the attempt loop; without a sleep the loop goes on at once with attempt++
Catch(c, msg, at) ==
    LET c1 == [c EXCEPT !.lastError = msg]
    IN  IF NoRetry(msg) THEN Settle(c1, Error(msg))
        ELSE IF c1.attempt < retryAttempts
             THEN [c1 EXCEPT !.pc = "sleep",
                             !.wakeAt = at + BackoffDelay(c1.attempt),
                             !.sleeps = Append(@, BackoffDelay(c1.attempt))]
             ELSE LoopHead([c1 EXCEPT !.attempt = @ + 1], at)

-----------------------------------------------------------------------------
(* The facade OrderCloudClient and its BaseClient sub-clients *)

FacadeNames ==
    { "catalogs", "products", "categories", "promotions",
      "buyers", "suppliers", "priceSchedules", "addresses" }

ClientNames == { "auth" } \cup FacadeNames

\* the options the client is constructed with
ConstructorOptions == [username |-> "u", password |-> "p", clientId |-> "c"]

\* the username, clientId and password an authenticate tool call may pass
ToolCredentials == { ConstructorOptions, [username |-> "v", password |-> "q", clientId |-> "c"] }

\* a default parameter value applies when the argument is undefined, and only then
DefaultScope(scope) == IF scope = Null THEN << "FullAccess" >> ELSE scope[1]

\* AuthClient.authenticate: the form fields it posts
AuthClientBody(username, clientId, password, scope) ==
    [client_id |-> clientId, grant_type |-> "password", username |-> username,
     password |-> password, scope |-> DefaultScope(scope)]

\* no authenticate call running
IdleAuth == [pc |-> "idle", cred |-> Null, body |-> Null]

\* the patched auth.authenticate with arguments c: its scope parameter defaults to this.scope
PostedAuth(c, scope) ==
    [pc |-> "auth_wait", cred |-> Some(c),
     body |-> Some(AuthClientBody(c.username, c.clientId, c.password, Some(scope)))]

\* BaseClient.setAccessToken on one sub-client
SetAccessToken(acc, name, tok) == [acc EXCEPT ![name] = Some(tok)]

\* setToken with one facade left out of the list
SetTokenMissingOne(acc, tok) ==
    [n \in ClientNames |-> IF n \in FacadeNames \ { "promotions" } THEN Some(tok) ELSE acc[n]]

\* setToken: the constructor's closure that copies a token to every facade
SetToken(acc, tok) == [n \in ClientNames |-> IF n \in FacadeNames THEN Some(tok) ELSE acc[n]]

\* the request interceptor: adds Authorization when the sub-client holds a token
Interceptor(acc, name) ==
    IF acc[name] # Null THEN Some([scheme |-> "Bearer", token |-> acc[name][1]]) ELSE Null

NotAuthenticatedMsg == << "Not authenticated. Please call authenticate() first." >>

\* the check left out: no operation is ever refused
EnsureAuthenticatedNever(acc, name) == Null

\* BaseClient.ensureAuthenticated on one sub-client: the error it throws, if any
EnsureAuthenticated(acc, name) == IF acc[name] = Null THEN Some(NotAuthenticatedMsg) ELSE Null

NoRequest == [facade |-> "none", sent |-> FALSE, authorization |-> Null, latest |-> Null, raised |-> Null]

-----------------------------------------------------------------------------
(* batchCreateProducts, healthCheck, DebugLogger and start-up *)

\* batchCreateProducts not called
IdleBatch == [pc |-> "idle", products |-> << >>, i |-> 0, calls |-> << >>, results |-> << >>, error |-> Null]

\* the input arrays of batchCreateProducts: none, one, a full batch, one more, the most
ProductCounts == { 0, 1, batchSize, batchSize + 1, MaxProducts }

\* an input array of n products, named by their IDs, which are not in ascending order
Products(n) == [j \in 1..n |-> n + 1 - j]

\* what createProduct returns for product p: the product as the server stored it
Created(p) == [ID |-> p]

\* a batch that takes one product more than batchSize
BatchIndicesOverlapping(n, i) == (i + 1)..(IF i + batchSize + 1 < n THEN i + batchSize + 1 ELSE n)

\* products.slice(i, i + batchSize): the positions (from 1) of the batch that begins at i
BatchIndices(n, i) == (i + 1)..(IF i + batchSize < n THEN i + batchSize ELSE n)

\* the for loop of batchCreateProducts at index b.i: slice the next batch and start one
\* createProduct call for each of its products, or return the results
BatchLoop(b) ==
    IF b.i < Len(b.products)
    THEN [b EXCEPT !.pc = "waiting",
                   !.calls = [j \in 1..Len(b.products) |->
                                 IF j \in BatchIndices(Len(b.products), b.i) THEN "pending" ELSE b.calls[j]]]
    ELSE [b EXCEPT !.pc = "done"]

\* createProduct call j settles.  While batchCreateProducts awaits Promise.all of the batch
\* of j: the first rejection rejects Promise.all, the catch block logs and rethrows; the
\* last fulfilment fulfils it with the values in the order of the promises, which are
\* pushed to results before the loop goes on.  A call that settles after the function has
\* thrown changes nothing but itself.
AfterCreate(b, j, ok) ==
    LET b1 == [b EXCEPT !.calls[j] = IF ok THEN "ok" ELSE "failed"]
        cur == BatchIndices(Len(b.products), b.i)
    IN  IF b.pc # "waiting" \/ j \notin cur THEN b1
        ELSE IF ~ok THEN [b1 EXCEPT !.pc = "done", !.error = Some(b.products[j])]
        ELSE IF \A k \in cur : b1.calls[k] = "ok"
             THEN BatchLoop([b1 EXCEPT !.results = @ \o [k \in 1..Cardinality(cur) |-> Created(b.products[b.i + k])],
                                       !.i = @ + batchSize])
             ELSE b1

\* healthCheck that lets the error of the probe through
HealthResultRethrows(r, authed, at) ==
    IF r.kind = "value"
    THEN [kind |-> "returned", status |-> "healthy", timestamp |-> at, authenticated |-> authed]
    ELSE [kind |-> "raised", status |-> "none", timestamp |-> at, authenticated |-> FALSE]

\* what healthCheck makes of the outcome r of its probe: the try block returns "healthy"
\* with orderCloudAuth.isAuthenticated(), the catch block returns "unhealthy" with false
HealthResult(r, authed, at) ==
    IF r.kind = "value"
    THEN [kind |-> "returned", status |-> "healthy", timestamp |-> at, authenticated |-> authed]
    ELSE [kind |-> "returned", status |-> "unhealthy", timestamp |-> at, authenticated |-> FALSE]

\* static logs = [] and no array handed out by getLogs.  Entries are named by their number
\* in logging order; logged counts them and clearedAt is the count at the latest clearLogs.
\* copy is the array a caller holds from getLogs, aliased tells whether it is the very
\* array object the logger stores, mutations counts what the caller did to it.
EmptyDebug == [logs |-> << >>, logged |-> 0, clearedAt |-> 0, copy |-> Null, aliased |-> FALSE, mutations |-> 0]

\* the trim that keeps the oldest maxLogs entries
TrimLogsKeepsOldest(logs) ==
    IF Len(logs) > maxLogs THEN SubSeq(logs, 1, maxLogs) ELSE logs

\* if (this.logs.length > this.maxLogs) this.logs = this.logs.slice(-this.maxLogs)
TrimLogs(logs) ==
    IF Len(logs) > maxLogs THEN SubSeq(logs, Len(logs) - maxLogs + 1, Len(logs)) ELSE logs

\* what a caller may do to an array: push an entry of its own, pop, overwrite the first entry
Mutations == { "push", "pop", "set" }

Mutate(arr, m) ==
    IF m = "push" THEN Append(arr, 0)
    ELSE IF arr = << >> THEN arr
    ELSE IF m = "pop" THEN SubSeq(arr, 1, Len(arr) - 1)
    ELSE [arr EXCEPT ![1] = 0]

\* process.env after dotenv.config(): each variable is absent, the empty string or a value
EnvChoices ==
    [username : { Null, Some(""), Some("u") },
     password : { Null, Some(""), Some("p") },
     clientId : { Null, Some(""), Some("c") },
     scope    : { Null, Some(<< "Shopper" >>) },
     baseUrl  : { Null, Some("https://api.example") }]

\* a complete environment
FullEnv == [username |-> Some("u"), password |-> Some("p"), clientId |-> Some("c"),
            scope |-> Null, baseUrl |-> Null]

\* the value a read of an environment variable gives: undefined or the string
EnvValue(v) == IF v = Null THEN Null ELSE v[1]

\* !v of an environment variable: undefined and the empty string are falsy
Falsy(v) == v = Null \/ v = Some("")

\* the check of main.ts that overlooks the client ID
MissingEnvironmentIgnoresClientId(env) == Falsy(env.username) \/ Falsy(env.password)

\* main.ts: !ORDERCLOUD_USERNAME || !ORDERCLOUD_PASSWORD || !ORDERCLOUD_CLIENT_ID
MissingEnvironment(env) == Falsy(env.username) \/ Falsy(env.password) \/ Falsy(env.clientId)

\* initializeOrderCloudAuth: !username || !password || !clientId
MissingCredentials(env) == Falsy(env.username) \/ Falsy(env.password) \/ Falsy(env.clientId)

\* what orderCloudAuth.constructor(baseUrl) does: a class constructor called without new
\* throws a TypeError in an ES2015 build and runs on the singleton in an ES5 build
ConstructorCallOutcomes == { "typeerror", "reinit" }

\* the process after main.ts ran to its end with a complete environment; pc is the
\* position of main.ts, client tells whether the facade client is constructed, helper is
\* the outcome of the latest initializeOrderCloudAuth()
Booted == [pc |-> "running", env |-> FullEnv, client |-> TRUE, helper |-> "none"]

-----------------------------------------------------------------------------
(* State machine *)

\* the state after the modules are loaded and the facade client is constructed:
\* its constructor has sent the auto-authentication POST and not awaited it
InitClient(c, scope) ==
    /\ credentials = c
    /\ token = Null
    /\ tokenExpiry = Null
    /\ now = 0
    /\ ticks = 0
    /\ issued = 0
    /\ call = [t \in Tasks |-> IdleCall]
    /\ accessToken = [n \in ClientNames |-> Null]
    /\ facadeScope = DefaultScope(scope)
    /\ fcall = [t \in Tasks |-> IF t = 1 THEN PostedAuth(ConstructorOptions, DefaultScope(scope))
                                         ELSE IdleAuth]
    /\ fIssued = 0
    /\ lastAuth = Null
    /\ lastRequest = NoRequest
    /\ batch = IdleBatch
    /\ health = Null
    /\ debug = EmptyDebug
    /\ boot = Booted

\* the facade client constructed without a scope option
InitWith(c) == InitClient(c, Null)

Init == InitWith(Null)

\* a call has settled in this event-loop turn and its result is not yet taken
Settled == \E t \in Tasks : call[t].pc = "done"

\* OrderCloudAuth.setCredentials
SetCredentials(c) ==
    /\ ~Settled
    /\ credentials' = Some(c)
    /\ UNCHANGED <<token, tokenExpiry, now, ticks, issued, call>>
    /\ UNCHANGED <<facadeVars, auxVars>>

\* clearAuth() that also forgets the credentials
ClearAuthDropsCredentials ==
    /\ ~Settled
    /\ token' = Null
    /\ tokenExpiry' = Null
    /\ credentials' = Null
    /\ UNCHANGED <<now, ticks, issued, call>>
    /\ UNCHANGED <<facadeVars, auxVars>>

\* OrderCloudAuth.clearAuth
ClearAuth ==
    /\ ~Settled
    /\ token' = Null
    /\ tokenExpiry' = Null
    /\ UNCHANGED <<credentials, now, ticks, issued, call>>
    /\ UNCHANGED <<facadeVars, auxVars>>

\* a tool invocation calls orderCloudAuth.authenticate()
StartAuthenticate(t) ==
    /\ ~Settled
    /\ call[t].pc = "idle"
    /\ call' = [call EXCEPT ![t] = EnterAuth([IdleCall EXCEPT !.op = "authenticate"], now)]
    /\ UNCHANGED <<credentials, token, tokenExpiry, now, ticks, issued>>
    /\ UNCHANGED <<facadeVars, auxVars>>

\* a caller invokes orderCloudAuth.getAuthHeaders()
StartGetAuthHeaders(t) ==
    /\ ~Settled
    /\ call[t].pc = "idle"
    /\ call' = [call EXCEPT ![t] = EnterAuth([IdleCall EXCEPT !.op = "getAuthHeaders"], now)]
    /\ UNCHANGED <<credentials, token, tokenExpiry, now, ticks, issued>>
    /\ UNCHANGED <<facadeVars, auxVars>>

\* a caller invokes orderCloudAuth.isAuthenticated(): synchronous, it returns in the same step
CheckAuthenticated(t) ==
    /\ ~Settled
    /\ call[t].pc = "idle"
    /\ call' = [call EXCEPT ![t] = Settle([IdleCall EXCEPT !.op = "isAuthenticated"], Value(IsAuthenticated(now)))]
    /\ UNCHANGED <<credentials, token, tokenExpiry, now, ticks, issued>>
    /\ UNCHANGED <<facadeVars, auxVars>>

\* a tool invocation calls a client method, which calls makeRequest
StartRequest(t) ==
    /\ ~Settled
    /\ call[t].pc = "idle"
    /\ call' = [call EXCEPT ![t] = LoopHead([IdleCall EXCEPT !.op = "makeRequest"], now)]
    /\ UNCHANGED <<credentials, token, tokenExpiry, now, ticks, issued>>
    /\ UNCHANGED <<facadeVars, auxVars>>

\* a tool invocation calls a creating client method (createProduct, createCategory, ...),
\* which calls makeRequest with method POST
StartPost(t) ==
    /\ ~Settled
    /\ call[t].pc = "idle"
    /\ call' = [call EXCEPT ![t] = LoopHead([IdleCall EXCEPT !.op = "makeRequest", !.method = "POST"], now)]
    /\ UNCHANGED <<credentials, token, tokenExpiry, now, ticks, issued>>
    /\ UNCHANGED <<facadeVars, auxVars>>

\* makeRequest called with options that carry a headers object
StartRequestWith(t, h) ==
    /\ ~Settled
    /\ call[t].pc = "idle"
    /\ call' = [call EXCEPT ![t] = LoopHead([IdleCall EXCEPT !.op = "makeRequest", !.headers = h], now)]
    /\ UNCHANGED <<credentials, token, tokenExpiry, now, ticks, issued>>
    /\ UNCHANGED <<facadeVars, auxVars>>

\* a successful response that stores its token only when none is cached: the first write wins
AuthResponseOkFirstWins(t, e) ==
    /\ ~Settled
    /\ call[t].pc = "auth_wait"
    /\ issued < MaxIssued
    /\ LET authData == [access_token |-> [serial |-> issued + 1, sub |-> call[t].reqCred[1].username, iat |-> now],
                        token_type |-> "bearer", expires_in |-> e, refresh_token |-> Null]
       IN  /\ issued' = issued + 1
           /\ token' = IF token = Null THEN Some(TokenFrom(authData)) ELSE token
           /\ tokenExpiry' = IF token = Null THEN Some(ComputeExpiry(now, authData.expires_in)) ELSE tokenExpiry
           /\ call' = [call EXCEPT ![t] =
                         AfterAuth([@ EXCEPT !.reqCred = Null, !.posted = Null],
                                   [tag |-> "return", tok |-> authData.access_token, msg |-> << >>], now)]
    /\ UNCHANGED <<credentials, now, ticks>>
    /\ UNCHANGED <<facadeVars, auxVars>>

\* a tool invocation calls deleteProduct, which calls makeRequest with method DELETE
StartDelete(t) ==
    /\ ~Settled
    /\ call[t].pc = "idle"
    /\ call' = [call EXCEPT ![t] = LoopHead([IdleCall EXCEPT !.op = "makeRequest", !.method = "DELETE"], now)]
    /\ UNCHANGED <<credentials, token, tokenExpiry, now, ticks, issued>>
    /\ UNCHANGED <<facadeVars, auxVars>>

\* a successful response that replaces the token and keeps the expiry already stored
AuthResponseOkKeepsExpiry(t, e) ==
    /\ ~Settled
    /\ call[t].pc = "auth_wait"
    /\ issued < MaxIssued
    /\ LET authData == [access_token |-> [serial |-> issued + 1, sub |-> call[t].reqCred[1].username, iat |-> now],
                        token_type |-> "bearer", expires_in |-> e, refresh_token |-> Null]
       IN  /\ issued' = issued + 1
           /\ token' = Some(TokenFrom(authData))
           /\ tokenExpiry' = IF tokenExpiry = Null THEN Some(ComputeExpiry(now, authData.expires_in)) ELSE tokenExpiry
           /\ call' = [call EXCEPT ![t] =
                         AfterAuth([@ EXCEPT !.reqCred = Null, !.posted = Null],
                                   [tag |-> "return", tok |-> authData.access_token, msg |-> << >>], now)]
    /\ UNCHANGED <<credentials, now, ticks>>
    /\ UNCHANGED <<facadeVars, auxVars>>

\* the token endpoint answers the POST of task t with a fresh token.  The access token is
\* an opaque string to the program; the model keeps what the endpoint knows about it: its
\* serial number, the username it was granted to and the instant it was issued.
AuthResponseOk(t, e) ==
    /\ ~Settled
    /\ call[t].pc = "auth_wait"
    /\ issued < MaxIssued
    /\ LET authData == [access_token |-> [serial |-> issued + 1, sub |-> call[t].reqCred[1].username, iat |-> now],
                        token_type |-> "bearer", expires_in |-> e, refresh_token |-> Null]
       IN  /\ issued' = issued + 1
           /\ token' = Some(TokenFrom(authData))
           /\ tokenExpiry' = Some(ComputeExpiry(now, authData.expires_in))
           /\ call' = [call EXCEPT ![t] =
                         AfterAuth([@ EXCEPT !.reqCred = Null, !.posted = Null],
                                   [tag |-> "return", tok |-> authData.access_token, msg |-> << >>], now)]
    /\ UNCHANGED <<credentials, now, ticks>>
    /\ UNCHANGED <<facadeVars, auxVars>>

\* a failed authentication that throws the cached token away
AuthResponseFailDropsToken(t, o) ==
    /\ ~Settled
    /\ call[t].pc = "auth_wait"
    /\ LET thrown == IF o.kind = "reject" THEN AuthFailedMsg(o.status, o.text) ELSE o.text
       IN  call' = [call EXCEPT ![t] =
                      AfterAuth([@ EXCEPT !.reqCred = Null, !.posted = Null],
                                [tag |-> "throw", tok |-> NoToken, msg |-> WrapAuthError(thrown)], now)]
    /\ token' = Null
    /\ tokenExpiry' = Null
    /\ UNCHANGED <<credentials, now, ticks, issued>>
    /\ UNCHANGED <<facadeVars, auxVars>>

\* the token endpoint rejects the POST of task t, or the fetch itself fails
AuthResponseFail(t, o) ==
    /\ ~Settled
    /\ call[t].pc = "auth_wait"
    /\ LET thrown == IF o.kind = "reject" THEN AuthFailedMsg(o.status, o.text) ELSE o.text
       IN  call' = [call EXCEPT ![t] =
                      AfterAuth([@ EXCEPT !.reqCred = Null, !.posted = Null],
                                [tag |-> "throw", tok |-> NoToken, msg |-> WrapAuthError(thrown)], now)]
    /\ UNCHANGED <<credentials, token, tokenExpiry, now, ticks, issued>>
    /\ UNCHANGED <<facadeVars, auxVars>>

\* the resource fetch of task t completes.  On an ok response makeRequest returns the promise
\* of response.json() without awaiting it inside the try block: the call fulfils with the
\* decoded payload, or rejects with the parser's error, which the catch block never sees.
ResourceResponse(t, o) ==
    /\ ~Settled
    /\ call[t].pc = "res_wait"
    /\ LET c == [call[t] EXCEPT !.status = o.status]
       IN  call' = [call EXCEPT ![t] =
                      IF o.kind = "network" THEN Catch(c, o.text, now)
                      ELSE IF o.status \in 200..299
                           THEN IF o.body.parse = "json" THEN Settle(c, Value("payload"))
                                ELSE Settle(c, Error(JsonSyntaxMsg))
                      ELSE Catch(c, ApiErrorMsg(o), now)]
    /\ UNCHANGED <<credentials, token, tokenExpiry, now, ticks, issued>>
    /\ UNCHANGED <<facadeVars, auxVars>>

\* the headers obtained once and used again by the attempt after a sleep
WakeReusingHeaders(t) ==
    /\ ~Settled
    /\ call[t].pc = "sleep"
    /\ call[t].wakeAt <= MaxTime
    /\ LET at == IF now < call[t].wakeAt THEN call[t].wakeAt ELSE now
           c == [call[t] EXCEPT !.attempt = @ + 1, !.wakeAt = 0]
       IN  /\ now' = at
           /\ call' = [call EXCEPT ![t] =
                         IF c.sent # Null /\ c.attempt <= retryAttempts
                         THEN SendResource(c, c.sent[1].Authorization.token)
                         ELSE LoopHead(c, at)]
    /\ UNCHANGED <<credentials, token, tokenExpiry, ticks, issued>>
    /\ UNCHANGED <<facadeVars, auxVars>>

\* the backoff timer of task t fires: attempt++ and the next attempt begins
Wake(t) ==
    /\ ~Settled
    /\ call[t].pc = "sleep"
    /\ call[t].wakeAt <= MaxTime
    /\ LET at == IF now < call[t].wakeAt THEN call[t].wakeAt ELSE now
       IN  /\ now' = at
           /\ call' = [call EXCEPT ![t] = LoopHead([@ EXCEPT !.attempt = @ + 1, !.wakeAt = 0], at)]
    /\ UNCHANGED <<credentials, token, tokenExpiry, ticks, issued>>
    /\ UNCHANGED <<facadeVars, auxVars>>

\* time passes and a cached token whose expiry is reached is thrown away
TickEvictsExpired(d) ==
    /\ ~Settled
    /\ ticks < MaxTicks
    /\ now' = now + d
    /\ ticks' = ticks + 1
    /\ token' = IF tokenExpiry # Null /\ now + d >= tokenExpiry[1] THEN Null ELSE token
    /\ tokenExpiry' = IF tokenExpiry # Null /\ now + d >= tokenExpiry[1] THEN Null ELSE tokenExpiry
    /\ UNCHANGED <<credentials, issued, call>>
    /\ UNCHANGED <<facadeVars, auxVars>>

\* time passes
Tick(d) ==
    /\ ~Settled
    /\ ticks < MaxTicks
    /\ now' = now + d
    /\ ticks' = ticks + 1
    /\ UNCHANGED <<credentials, token, tokenExpiry, issued, call>>
    /\ UNCHANGED <<facadeVars, auxVars>>

\* the promise of task t has settled and the awaiting tool handler takes the result.  The
\* continuation of an await runs in the same event-loop turn as the settlement, before any
\* other callback: nothing else happens while a call is settled and not yet taken.
Finish(t) ==
    /\ call[t].pc = "done"
    /\ call' = [call EXCEPT ![t] = IdleCall]
    /\ UNCHANGED <<credentials, token, tokenExpiry, now, ticks, issued>>
    /\ UNCHANGED <<facadeVars, auxVars>>

\* the authenticate tool calls the patched auth.authenticate, which posts to the token endpoint
FacadeAuthenticate(t, c) ==
    /\ fcall[t].pc = "idle"
    /\ fcall' = [fcall EXCEPT ![t] = PostedAuth(c, facadeScope)]
    /\ UNCHANGED <<accessToken, fIssued, lastAuth, lastRequest, facadeScope>>
    /\ UNCHANGED <<authVars, auxVars>>

\* the POST of call t succeeds and the token stays on the auth sub-client alone
FacadeAuthOkNoPropagation(t) ==
    /\ fcall[t].pc = "auth_wait"
    /\ fIssued < MaxIssued
    /\ LET tok == [serial |-> fIssued + 1, sub |-> fcall[t].cred[1].username]
       IN  /\ accessToken' = SetAccessToken(accessToken, "auth", tok)
           /\ lastAuth' = Some(tok)
    /\ fIssued' = fIssued + 1
    /\ fcall' = [fcall EXCEPT ![t] = IdleAuth]
    /\ UNCHANGED <<lastRequest, facadeScope>>
    /\ UNCHANGED <<authVars, auxVars>>

\* the POST of call t succeeds: AuthClient.authenticate stores the token on the auth
\* sub-client, then the patched authenticate hands it to setToken
FacadeAuthOk(t) ==
    /\ fcall[t].pc = "auth_wait"
    /\ fIssued < MaxIssued
    /\ LET tok == [serial |-> fIssued + 1, sub |-> fcall[t].cred[1].username]
       IN  /\ accessToken' = SetToken(SetAccessToken(accessToken, "auth", tok), tok)
           /\ lastAuth' = Some(tok)
    /\ fIssued' = fIssued + 1
    /\ fcall' = [fcall EXCEPT ![t] = IdleAuth]
    /\ UNCHANGED <<lastRequest, facadeScope>>
    /\ UNCHANGED <<authVars, auxVars>>

\* the POST of call t fails and every sub-client is logged out
FacadeAuthFailClearsTokens(t) ==
    /\ fcall[t].pc = "auth_wait"
    /\ fcall' = [fcall EXCEPT ![t] = IdleAuth]
    /\ accessToken' = [n \in ClientNames |-> Null]
    /\ UNCHANGED <<fIssued, lastAuth, lastRequest, facadeScope>>
    /\ UNCHANGED <<authVars, auxVars>>

\* the POST of call t fails: axios rejects, nothing is stored
FacadeAuthFail(t) ==
    /\ fcall[t].pc = "auth_wait"
    /\ fcall' = [fcall EXCEPT ![t] = IdleAuth]
    /\ UNCHANGED <<accessToken, fIssued, lastAuth, lastRequest, facadeScope>>
    /\ UNCHANGED <<authVars, auxVars>>

\* a tool invokes an operation of facade f: ensureAuthenticated(), then the request
\* goes out through the interceptor
FacadeRequest(f) ==
    /\ LET raised == EnsureAuthenticated(accessToken, f)
       IN  lastRequest' =
              IF raised # Null
              THEN [facade |-> f, sent |-> FALSE, authorization |-> Null, latest |-> lastAuth, raised |-> raised]
              ELSE [facade |-> f, sent |-> TRUE, authorization |-> Interceptor(accessToken, f),
                    latest |-> lastAuth, raised |-> Null]
    /\ UNCHANGED <<accessToken, fcall, fIssued, lastAuth, facadeScope>>
    /\ UNCHANGED <<authVars, auxVars>>

\* the token authority alone: concurrent authenticate() calls
Next ==
    \/ \E c \in CredentialChoices : SetCredentials(c)
    \/ ClearAuth
    \/ \E t \in Tasks : StartAuthenticate(t)
    \/ \E t \in Tasks : StartGetAuthHeaders(t)
    \/ \E t \in Tasks : CheckAuthenticated(t)
    \/ \E t \in Tasks, e \in ExpiresInChoices : AuthResponseOk(t, e)
    \/ \E t \in Tasks, o \in AuthFailures : AuthResponseFail(t, o)
    \/ \E d \in TickSteps : Tick(d)
    \/ \E t \in Tasks : Finish(t)

Spec == Init /\ [][Next]_vars

\* the dispatcher: one makeRequest call at a time over the token authority
NextDispatch ==
    \/ \E c \in CredentialChoices : SetCredentials(c)
    \/ ClearAuth
    \/ StartRequest(1)
    \/ \E t \in Tasks, e \in ExpiresInChoices \ {300} : AuthResponseOk(t, e)
    \/ \E t \in Tasks, o \in AuthFailures : AuthResponseFail(t, o)
    \/ \E o \in ResourceOutcomes : ResourceResponse(1, o)
    \/ Wake(1)
    \/ Tick(MsPerSecond)
    \/ \E t \in Tasks : Finish(t)

SpecDispatch == Init /\ [][NextDispatch]_vars

\* the scenario of a resource that answers every request with HTTP 500, credentials
\* configured and the token endpoint healthy
InitAlways500 == \E c \in CredentialChoices : InitWith(Some(c))

NextAlways500 ==
    \/ StartRequest(1)
    \/ \E t \in Tasks, e \in ExpiresInChoices \ {300} : AuthResponseOk(t, e)
    \/ \E o \in { r \in ResourceOutcomes : r.status = 500 } : ResourceResponse(1, o)
    \/ Wake(1)
    \/ Tick(MsPerSecond)
    \/ \E t \in Tasks : Finish(t)

SpecAlways500 == InitAlways500 /\ [][NextAlways500]_vars

\* the dispatcher's reporting: GET, POST and DELETE calls against a resource that answers
\* with every shape of body, credentials configured and the token endpoint healthy
NextAssembly ==
    \/ StartRequest(1)
    \/ StartPost(1)
    \/ StartDelete(1)
    \/ \E t \in Tasks, e \in ExpiresInChoices \ {300} : AuthResponseOk(t, e)
    \/ \E o \in AssemblyOutcomes : ResourceResponse(1, o)
    \/ Wake(1)
    \/ Tick(MsPerSecond)
    \/ \E t \in Tasks : Finish(t)

SpecAssembly == InitAlways500 /\ [][NextAssembly]_vars

\* the dispatcher's header merge: makeRequest calls with every shape of options.headers,
\* credentials configured and the token endpoint healthy
HeaderOutcomes == { r \in ResourceOutcomes : r.kind = "network" \/ r.status \in { 200, 404, 503 } }

NextHeaders ==
    \/ \E h \in CallerHeaderChoices : StartRequestWith(1, h)
    \/ \E t \in Tasks, e \in ExpiresInChoices \ {300} : AuthResponseOk(t, e)
    \/ \E o \in HeaderOutcomes : ResourceResponse(1, o)
    \/ Wake(1)
    \/ Tick(MsPerSecond)
    \/ \E t \in Tasks : Finish(t)

SpecHeaders == InitAlways500 /\ [][NextHeaders]_vars

\* the sum of the delays of one call's sleeps: one after each attempt but the last
RECURSIVE BackoffSum(_)
BackoffSum(n) == IF n = 0 THEN 0 ELSE BackoffSum(n - 1) + BackoffDelay(n - 1)

\* makeRequest under fair scheduling: every token request and every resource request is
\* answered in the end, every timer fires and every settled promise is taken up.  Calls
\* begin while the clock leaves room for all their sleeps below MaxTime.
NextTermination ==
    \/ \E c \in CredentialChoices : SetCredentials(c)
    \/ (now + BackoffSum(retryAttempts) <= MaxTime /\ StartRequest(1))
    \/ \E t \in Tasks, e \in ExpiresInChoices \ {300} : AuthResponseOk(t, e)
    \/ \E t \in Tasks, o \in AuthFailures : AuthResponseFail(t, o)
    \/ \E o \in ResourceOutcomes : ResourceResponse(1, o)
    \/ Wake(1)
    \/ \E t \in Tasks : Finish(t)

FairTermination ==
    /\ \A t \in Tasks :
          WF_vars(\/ \E e \in ExpiresInChoices \ {300} : AuthResponseOk(t, e)
                  \/ \E o \in AuthFailures : AuthResponseFail(t, o))
    /\ WF_vars(\E o \in ResourceOutcomes : ResourceResponse(1, o))
    /\ WF_vars(Wake(1))
    /\ \A t \in Tasks : WF_vars(Finish(t))

SpecTermination == Init /\ [][NextTermination]_vars /\ FairTermination

\* logout while tokens are being fetched: every authenticate() call is made before the
\* first token arrives, so a state with no token after a token was issued is one in which
\* clearAuth() has returned and no authenticate() has been started since
NextLogout ==
    \/ \E c \in CredentialChoices : SetCredentials(c)
    \/ ClearAuth
    \/ \E t \in Tasks : (issued = 0 /\ StartAuthenticate(t))
    \/ \E t \in Tasks : CheckAuthenticated(t)
    \/ \E t \in Tasks, e \in ExpiresInChoices : AuthResponseOk(t, e)
    \/ \E t \in Tasks, o \in AuthFailures : AuthResponseFail(t, o)
    \/ \E d \in TickSteps : Tick(d)
    \/ \E t \in Tasks : Finish(t)

SpecLogout == Init /\ [][NextLogout]_vars

\* a token endpoint that grants lifetimes within the safety margin, credentials configured:
\* makeRequest calls of the first task, authenticate() and isAuthenticated() of the second
NextShortLived ==
    \/ StartAuthenticate(2)
    \/ CheckAuthenticated(2)
    \/ StartRequest(1)
    \/ \E t \in Tasks, e \in ShortExpiresInChoices : AuthResponseOk(t, e)
    \/ \E o \in { r \in ResourceOutcomes : r.status \in { 200, 503 } } : ResourceResponse(1, o)
    \/ Wake(1)
    \/ Tick(MsPerSecond)
    \/ \E t \in Tasks : Finish(t)

SpecShortLived == InitAlways500 /\ [][NextShortLived]_vars

\* the modules are loaded and main.ts has not run: the singleton of OrderCloudAuth is
\* constructed, no facade client is, and the environment is any of EnvChoices
InitStartup ==
    /\ credentials = Null
    /\ token = Null
    /\ tokenExpiry = Null
    /\ now = 0
    /\ ticks = 0
    /\ issued = 0
    /\ call = [t \in Tasks |-> IdleCall]
    /\ accessToken = [n \in ClientNames |-> Null]
    /\ facadeScope = DefaultScope(Null)
    /\ fcall = [t \in Tasks |-> IdleAuth]
    /\ fIssued = 0
    /\ lastAuth = Null
    /\ lastRequest = NoRequest
    /\ batch = IdleBatch
    /\ health = Null
    /\ debug = EmptyDebug
    /\ \E env \in EnvChoices : boot = [pc |-> "start", env |-> env, client |-> FALSE, helper |-> "none"]

\* main.ts: read the environment, exit when a required variable is missing, else construct
\* the facade client, whose constructor posts the auto-authentication.  main.ts hands the
\* four values over one by one while the constructor of part_004 takes one options object;
\* the constructor is given the values main.ts read.
Main ==
    /\ boot.pc = "start"
    /\ IF MissingEnvironment(boot.env)
       THEN /\ boot' = [boot EXCEPT !.pc = "exited"]
            /\ UNCHANGED <<fcall, facadeScope>>
       ELSE /\ boot' = [boot EXCEPT !.pc = "running", !.client = TRUE]
            /\ facadeScope' = DefaultScope(boot.env.scope)
            /\ fcall' = [fcall EXCEPT ![1] =
                            PostedAuth([username |-> EnvValue(boot.env.username),
                                        password |-> EnvValue(boot.env.password),
                                        clientId |-> EnvValue(boot.env.clientId)],
                                       DefaultScope(boot.env.scope))]
    /\ UNCHANGED <<accessToken, fIssued, lastAuth, lastRequest>>
    /\ UNCHANGED <<authVars, batch, health, debug>>

\* initializeOrderCloudAuth(): raise when a required variable is missing; with a base URL
\* call orderCloudAuth.constructor(baseUrl), outcome o; then setCredentials with scope
\* ["FullAccess"]
InitializeOrderCloudAuth(o) ==
    /\ ~Settled
    /\ boot.pc # "exited"
    /\ IF MissingCredentials(boot.env)
       THEN /\ boot' = [boot EXCEPT !.helper = "raised"]
            /\ UNCHANGED <<credentials, token, tokenExpiry>>
       ELSE IF boot.env.baseUrl # Null /\ o = "typeerror"
       THEN /\ boot' = [boot EXCEPT !.helper = "typeerror"]
            /\ UNCHANGED <<credentials, token, tokenExpiry>>
       ELSE /\ boot' = [boot EXCEPT !.helper = "configured"]
            /\ credentials' = Some([username |-> EnvValue(boot.env.username),
                                    password |-> EnvValue(boot.env.password),
                                    clientId |-> EnvValue(boot.env.clientId),
                                    scope |-> Some(<< "FullAccess" >>)])
            /\ IF boot.env.baseUrl # Null
               THEN token' = Null /\ tokenExpiry' = Null
               ELSE UNCHANGED <<token, tokenExpiry>>
    /\ UNCHANGED <<now, ticks, issued, call>>
    /\ UNCHANGED <<facadeVars, batch, health, debug>>

\* start-up under every environment, and what the process does afterwards: the
\* auto-authentication is answered, tools call the facades and the singleton
NextStartup ==
    \/ Main
    \/ \E o \in ConstructorCallOutcomes : InitializeOrderCloudAuth(o)
    \/ boot.pc = "running" /\ \E t \in Tasks : FacadeAuthOk(t)
    \/ boot.pc = "running" /\ \E t \in Tasks : FacadeAuthFail(t)
    \/ boot.pc = "running" /\ \E f \in FacadeNames : FacadeRequest(f)
    \/ boot.pc # "exited" /\ StartAuthenticate(1)
    \/ boot.pc # "exited" /\ AuthResponseOk(1, 600)
    \/ boot.pc # "exited" /\ \E o \in { r \in AuthFailures : r.kind = "network" } : AuthResponseFail(1, o)
    \/ boot.pc # "exited" /\ Finish(1)

SpecStartup == InitStartup /\ [][NextStartup]_vars

\* DebugLogger.log: push the new entry on the stored array, then trim.  The caller of an
\* earlier getLogs has used its array within its own handler and holds it no longer.
DebugLog ==
    /\ debug.logged < MaxLogged
    /\ debug' = [debug EXCEPT !.logs = TrimLogs(Append(@, debug.logged + 1)),
                              !.logged = @ + 1,
                              !.copy = Null, !.aliased = FALSE, !.mutations = 0]
    /\ UNCHANGED <<authVars, facadeVars, batch, health, boot>>

\* DebugLogger.clearLogs: this.logs = []
ClearLogs ==
    /\ debug' = [debug EXCEPT !.logs = << >>, !.clearedAt = debug.logged,
                              !.copy = Null, !.aliased = FALSE, !.mutations = 0]
    /\ UNCHANGED <<authVars, facadeVars, batch, health, boot>>

\* DebugLogger.getLogs: return [...this.logs], a new array with the same entries
GetLogs ==
    /\ debug' = [debug EXCEPT !.copy = Some(debug.logs), !.aliased = FALSE, !.mutations = 0]
    /\ UNCHANGED <<authVars, facadeVars, batch, health, boot>>

\* the caller of getLogs changes the array it got
MutateCopy(m) ==
    /\ debug.copy # Null
    /\ debug.mutations < MaxMutations
    /\ debug' = [debug EXCEPT !.copy = Some(Mutate(debug.copy[1], m)),
                              !.logs = IF debug.aliased THEN Mutate(debug.copy[1], m) ELSE @,
                              !.mutations = @ + 1]
    /\ UNCHANGED <<authVars, facadeVars, batch, health, boot>>

\* the debug log and its readers
NextDebug ==
    \/ DebugLog
    \/ ClearLogs
    \/ GetLogs
    \/ \E m \in Mutations : MutateCopy(m)

SpecDebug == Init /\ [][NextDebug]_vars

\* a tool calls healthCheck, which calls makeRequest("/v1/me")
StartHealthCheck(t) ==
    /\ ~Settled
    /\ call[t].pc = "idle"
    /\ call' = [call EXCEPT ![t] = LoopHead([IdleCall EXCEPT !.op = "healthCheck"], now)]
    /\ UNCHANGED <<credentials, token, tokenExpiry, now, ticks, issued>>
    /\ UNCHANGED <<facadeVars, auxVars>>

\* the probe of task t has settled and healthCheck goes on after its await, in the same
\* event-loop turn: it returns its record
HealthCheckReturn(t) ==
    /\ call[t].pc = "done"
    /\ call[t].op = "healthCheck"
    /\ health' = Some(HealthResult(call[t].result, IsAuthenticated(now), now))
    /\ call' = [call EXCEPT ![t] = IdleCall]
    /\ UNCHANGED <<credentials, token, tokenExpiry, now, ticks, issued>>
    /\ UNCHANGED <<facadeVars, batch, debug, boot>>

\* what /v1/me can answer
HealthOutcomes ==
    { r \in AssemblyOutcomes : r.kind = "network" \/ r.status \in { 200, 204, 401 } }

\* healthCheck calls over the token authority, one at a time, credentials configured; the
\* token endpoint grants a lifetime within the safety margin or a long one, or is unreachable
NextHealth ==
    \/ StartHealthCheck(1)
    \/ \E t \in Tasks, e \in { 300, 600 } : AuthResponseOk(t, e)
    \/ \E t \in Tasks, o \in { f \in AuthFailures : f.kind = "network" } : AuthResponseFail(t, o)
    \/ \E o \in HealthOutcomes : ResourceResponse(1, o)
    \/ Wake(1)
    \/ Tick(MsPerSecond)
    \/ HealthCheckReturn(1)

SpecHealth == InitAlways500 /\ [][NextHealth]_vars

\* a tool calls batchCreateProducts with an array of n products
BatchStart(n) ==
    /\ batch.pc = "idle"
    /\ batch' = BatchLoop([IdleBatch EXCEPT !.products = Products(n),
                                            !.calls = [j \in 1..n |-> "unstarted"]])
    /\ UNCHANGED <<authVars, facadeVars, health, debug, boot>>

\* the createProduct call for product j of the array settles: fulfilled or rejected
CreateSettles(j, ok) ==
    /\ j \in 1..Len(batch.calls)
    /\ batch.calls[j] = "pending"
    /\ batch' = AfterCreate(batch, j, ok)
    /\ UNCHANGED <<authVars, facadeVars, health, debug, boot>>

\* one batchCreateProducts invocation over each input array
NextBatch ==
    \/ \E n \in ProductCounts : BatchStart(n)
    \/ \E j \in 1..MaxProducts, ok \in BOOLEAN : CreateSettles(j, ok)

SpecBatch == Init /\ [][NextBatch]_vars

\* the token requests of both clients: the authority with every shape of scope in its
\* credentials, and the facade client constructed with every shape of scope option
InitScope == \E scope \in FacadeScopeChoices : InitClient(Null, scope)

NextScope ==
    \/ \E c \in ScopeCredentialChoices : SetCredentials(c)
    \/ StartAuthenticate(1)
    \/ \E e \in ExpiresInChoices : AuthResponseOk(1, e)
    \/ \E o \in AuthFailures : AuthResponseFail(1, o)
    \/ Finish(1)
    \/ \E t \in Tasks, c \in ToolCredentials : FacadeAuthenticate(t, c)
    \/ \E t \in Tasks : FacadeAuthOk(t)
    \/ \E t \in Tasks : FacadeAuthFail(t)

SpecScope == InitScope /\ [][NextScope]_vars

\* the facade client: authenticate calls and facade operations
NextFacade ==
    \/ \E t \in Tasks, c \in ToolCredentials : FacadeAuthenticate(t, c)
    \/ \E t \in Tasks : FacadeAuthOk(t)
    \/ \E t \in Tasks : FacadeAuthFail(t)
    \/ \E f \in FacadeNames : FacadeRequest(f)

SpecFacade == Init /\ [][NextFacade]_vars

-----------------------------------------------------------------------------
(* Properties *)

\* task t calls authenticate() in this step
CallsAuthenticate(t) ==
    call[t].pc = "idle" /\ call'[t].pc # "idle" /\ call'[t].op = "authenticate"

\* C1 -- Token fast path: when credentials are set and the cached token's expiry is
\* strictly in the future, authenticate() sends nothing to the token endpoint, returns the
\* cached access token and leaves token and expiry as they were.
C1_TokenFastPath ==
    [][\A t \in Tasks :
          (/\ CallsAuthenticate(t)
           /\ credentials # Null /\ token # Null /\ tokenExpiry # Null
           /\ now < tokenExpiry[1])
          => (/\ call'[t].pc = "done"
              /\ call'[t].result = [kind |-> "value", value |-> << token[1].access_token >>, message |-> << >>]
              /\ call'[t].authPosts = 0
              /\ token' = token /\ tokenExpiry' = tokenExpiry /\ issued' = issued)]_vars

C1_Witness ==
    \E t \in Tasks :
        /\ call[t].pc = "done" /\ call[t].op = "authenticate"
        /\ call[t].result.kind = "value" /\ call[t].authPosts = 0
        /\ token # Null /\ call[t].result.value = << token[1].access_token >>

\* C2 -- Token refresh: with credentials set and the cached token absent or expired,
\* authenticate() sends exactly one POST to the token endpoint; when it succeeds it caches
\* the returned token with expiry = response time + (expires_in - 300) seconds and returns
\* the new access token.
C2_TokenRefresh ==
    [][\A t \in Tasks :
          /\ (/\ CallsAuthenticate(t)
              /\ credentials # Null
              /\ (token = Null \/ tokenExpiry = Null \/ now >= tokenExpiry[1]))
             => (call'[t].pc = "auth_wait" /\ call'[t].authPosts = 1 /\ issued' = issued)
          /\ (/\ call[t].op = "authenticate" /\ call[t].pc = "auth_wait"
              /\ call'[t].pc = "done" /\ call'[t].result.kind = "value")
             => (/\ call'[t].authPosts = 1
                 /\ issued' = issued + 1
                 /\ token' # Null
                 /\ token'[1].access_token.serial = issued'
                 /\ call'[t].result.value = << token'[1].access_token >>
                 /\ tokenExpiry' = << now' + (token'[1].expires_in - 300) * 1000 >>)]_vars

C2_Witness ==
    \E t \in Tasks :
        /\ call[t].pc = "done" /\ call[t].op = "authenticate"
        /\ call[t].result.kind = "value" /\ call[t].authPosts = 1
        /\ token # Null /\ token[1].access_token.serial = 2 /\ token[1].expires_in = 600
        /\ tokenExpiry = << now + 300000 >> /\ now > 0

\* C3 -- Retry bound: whatever the outcomes, one makeRequest call makes at most
\* maxRetries + 1 = 4 resource HTTP attempts.
C3_RetryBound ==
    \A t \in Tasks : call[t].httpAttempts <= 3 + 1 /\ Len(call[t].sleeps) <= 3

C3_Witness ==
    \E t \in Tasks : call[t].pc = "done" /\ call[t].httpAttempts = 4 /\ call[t].result.kind = "error"

\* C4 -- No retry on client/auth errors: a resource response with status 400, 401, 403 or
\* 404 makes the call raise at once, whatever the shape of the error body: no sleep follows,
\* and when it answers the first attempt the call ends after exactly 1 attempt.
C4_NoRetryOnClientError ==
    \A t \in Tasks :
        call[t].status \in { 400, 401, 403, 404 }
        => (/\ call[t].pc = "done" /\ call[t].result.kind = "error"
            /\ (call[t].attempt = 0 => call[t].httpAttempts = 1 /\ call[t].sleeps = << >>))

\* C5 -- Server and transport failures are retried: after a 5xx response or a network
\* failure (status 0) the call sleeps for another attempt whenever attempts remain, whatever
\* the error body holds; it raises only when attempt maxRetries has failed, with that
\* attempt's message.
C5_ServerErrorsRetried ==
    \A t \in Tasks :
        (call[t].status \in 500..599 \/ call[t].status = 0)
        => IF call[t].pc = "done"
           THEN /\ call[t].attempt = 3 + 1
                /\ call[t].result = [kind |-> "error", value |-> << >>, message |-> call[t].lastError]
           ELSE call[t].pc = "sleep" /\ call[t].attempt < 3

\* C6 -- Backoff schedule: against a resource that always answers HTTP 500, with
\* maxRetries = 3 and baseDelayMs = 1000, a call makes exactly 4 attempts, waits 1000, 2000
\* and 4000 ms between them, and then raises.
C6_BackoffSchedule ==
    \A t \in Tasks :
        call[t].pc = "done"
        => (/\ call[t].httpAttempts = 4
            /\ call[t].sleeps = << 1000, 2000, 4000 >>
            /\ call[t].result.kind = "error")

\* C7 -- Shared token visibility: once an authentication has succeeded, every operation of
\* every facade goes out with the access token that the latest successful authentication
\* returned, never with an older one.
C7_SharedTokenVisibility ==
    (lastRequest.facade # "none" /\ lastRequest.latest # Null)
    => (/\ lastRequest.sent
        /\ lastRequest.authorization = << [scheme |-> "Bearer", token |-> lastRequest.latest[1]] >>)

C7_Witness ==
    /\ lastRequest.sent
    /\ lastRequest.latest # Null /\ lastRequest.latest[1].serial = 2
    /\ lastRequest.authorization[1].token.serial = 2

\* C8 -- setCredentials(c) replaces the credentials, sends nothing and clears the cached
\* token, so authenticate() never returns from the cache a token granted to other
\* credentials than the stored ones.
C8_SetCredentialsClearsToken ==
    [][/\ credentials' # credentials
          => (credentials' # Null /\ token' = Null /\ tokenExpiry' = Null /\ call' = call /\ issued' = issued)
       /\ \A t \in Tasks :
             (CallsAuthenticate(t) /\ call'[t].pc = "done" /\ call'[t].result.kind = "value")
             => call'[t].result.value[1].sub = credentials[1].username]_vars

\* C9 -- Configuration errors are not retried: with credentials never set, makeRequest
\* raises the configuration error at once: no resource attempt, no retry, no sleep.
C9_ConfigurationErrorNotRetried ==
    \A t \in Tasks :
        (credentials = Null /\ call[t].op = "makeRequest")
        => (/\ call[t].pc = "done"
            /\ call[t].result = [kind |-> "error", value |-> << >>,
                                  message |-> << "Credentials not set. Call setCredentials() first." >>]
            /\ call[t].httpAttempts = 0 /\ call[t].attempt = 0 /\ call[t].sleeps = << >>)

\* C10 -- authenticate() before any setCredentials fails with the configuration error,
\* sends nothing, and leaves credentials and token absent.
C10_AuthenticateWithoutCredentials ==
    [][\A t \in Tasks :
          (CallsAuthenticate(t) /\ credentials = Null)
          => (/\ call'[t].pc = "done"
              /\ call'[t].result = [kind |-> "error", value |-> << >>,
                                     message |-> << "Credentials not set. Call setCredentials() first." >>]
              /\ call'[t].authPosts = 0
              /\ credentials' = Null /\ token' = Null /\ tokenExpiry' = Null /\ issued' = issued)]_vars

C10_Witness ==
    \E t \in Tasks :
        /\ call[t].pc = "done" /\ call[t].op = "authenticate"
        /\ credentials = Null /\ token = Null
        /\ call[t].result.kind = "error" /\ call[t].authPosts = 0

\* C11 -- Idempotent clear: clearAuth() leaves token and expiry absent and the credentials
\* as they were; a clearAuth() that finds the token already absent changes nothing; and a
\* call of authenticate() that finds the token absent sends one request to the token
\* endpoint, made from the credentials that are stored.
C11_IdempotentClear ==
    [][/\ ClearAuth
          => (/\ token' = Null /\ tokenExpiry' = Null
              /\ credentials' = credentials /\ issued' = issued /\ call' = call
              /\ ((token = Null /\ tokenExpiry = Null) => UNCHANGED vars))
       /\ \A t \in Tasks :
             (CallsAuthenticate(t) /\ token = Null /\ credentials # Null)
             => (/\ call'[t].pc = "auth_wait" /\ call'[t].authPosts = 1
                 /\ call'[t].reqCred = credentials
                 /\ credentials' = credentials)]_vars

\* a token was issued and then cleared, and an authenticate() call is at the token endpoint
C11_Witness ==
    \E t \in Tasks :
        /\ issued >= 1 /\ token = Null /\ tokenExpiry = Null /\ credentials # Null
        /\ call[t].op = "authenticate" /\ call[t].pc = "auth_wait"
        /\ call[t].reqCred = credentials
        /\ \A u \in Tasks \ {t} : call[u].pc = "idle"

\* C12 -- isAuthenticated() returns true iff a cached token exists and the current time is
\* strictly before its expiry instant; it sends nothing and changes neither credentials,
\* token nor expiry.
C12_IsAuthenticatedPureRead ==
    [][\A t \in Tasks :
          (call[t].pc = "idle" /\ call'[t].op = "isAuthenticated")
          => (/\ call'[t].pc = "done"
              /\ call'[t].result.kind = "value"
              /\ call'[t].result.value = << (token # Null /\ now < tokenExpiry[1]) >>
              /\ call'[t].authPosts = 0 /\ call'[t].httpAttempts = 0
              /\ credentials' = credentials /\ token' = token /\ tokenExpiry' = tokenExpiry
              /\ issued' = issued)]_vars

\* isAuthenticated() has answered false at the expiry instant of a cached token
C12_Witness ==
    \E t \in Tasks :
        /\ call[t].pc = "done" /\ call[t].op = "isAuthenticated"
        /\ token # Null /\ now = tokenExpiry[1] /\ now > 0
        /\ call[t].result.value = << FALSE >>

\* C13 -- Safety-margin boundary: a token issued at t0 with expires_in = 600 is valid at
\* t0 + 299 s (isAuthenticated() true, authenticate() returns it with no request) and invalid
\* at t0 + 300 s and at every later time (isAuthenticated() false, authenticate() sends a
\* request to the token endpoint).
C13_SafetyMarginBoundary ==
    [][\A t \in Tasks :
          (token # Null /\ token[1].expires_in = 600 /\ credentials # Null /\ call[t].pc = "idle")
          => LET t0 == token[1].access_token.iat
             IN  /\ (now = t0 + 299000 /\ call'[t].op = "isAuthenticated")
                    => call'[t].result.value = << TRUE >>
                 /\ (now = t0 + 299000 /\ call'[t].op = "authenticate")
                    => (/\ call'[t].pc = "done" /\ call'[t].authPosts = 0
                        /\ call'[t].result.value = << token[1].access_token >>)
                 /\ (now >= t0 + 300000 /\ call'[t].op = "isAuthenticated")
                    => call'[t].result.value = << FALSE >>
                 /\ (now >= t0 + 300000 /\ call'[t].op = "authenticate")
                    => (call'[t].pc = "auth_wait" /\ call'[t].authPosts = 1)]_vars

\* exactly 300 s after a token with expires_in = 600 was issued, isAuthenticated() has
\* answered false and an authenticate() call is at the token endpoint
C13_Witness ==
    \E t, u \in Tasks :
        /\ token # Null /\ token[1].expires_in = 600
        /\ now = token[1].access_token.iat + 300000
        /\ call[t].pc = "done" /\ call[t].op = "isAuthenticated" /\ call[t].result.value = << FALSE >>
        /\ call[u].pc = "auth_wait" /\ call[u].op = "authenticate" /\ call[u].authPosts = 1

\* C14 -- Header propagation: when authentication succeeds, getAuthHeaders() returns the map
\* whose Authorization value is "Bearer " followed by the access token authenticate() returns
\* there (the cached one while it is valid, else the one just issued), together with
\* Content-Type application/json.
C14_HeaderPropagation ==
    [][\A t \in Tasks :
          (/\ call[t].pc # "done" /\ call'[t].pc = "done"
           /\ call'[t].op = "getAuthHeaders" /\ call'[t].result.kind = "value")
          => LET returned == IF call[t].pc = "idle" THEN token[1].access_token
                             ELSE token'[1].access_token
             IN  /\ call'[t].result.value =
                       << [Authorization |-> [scheme |-> "Bearer", token |-> returned],
                           ContentType |-> "application/json"] >>
                 /\ call[t].pc = "idle" => (now < tokenExpiry[1] /\ token' = token)
                 /\ call[t].pc # "idle" => issued' = returned.serial]_vars

\* getAuthHeaders() has returned the headers around a token it obtained from the endpoint
C14_Witness ==
    \E t \in Tasks :
        /\ call[t].pc = "done" /\ call[t].op = "getAuthHeaders" /\ call[t].authPosts = 1
        /\ call[t].result.kind = "value"
        /\ call[t].result.value[1].Authorization.token.serial = 2
        /\ token # Null /\ call[t].result.value[1].Authorization.token = token[1].access_token

\* C15 -- authenticate() never retries: one invocation sends at most one request to the
\* token endpoint, and when that request is rejected or fails it ends with the error.
C15_AuthenticateNeverRetries ==
    [][\A t \in Tasks :
          /\ call'[t].authPosts <= 1
          /\ (/\ call[t].pc = "auth_wait" /\ call[t].op = "authenticate"
              /\ call'[t] # call[t] /\ token' = token)
             => (call'[t].pc = "done" /\ call'[t].result.kind = "error" /\ call'[t].authPosts = 1)]_vars

\* an authenticate() call has failed after its one request
C15_Witness ==
    \E t \in Tasks :
        /\ call[t].pc = "done" /\ call[t].op = "authenticate"
        /\ call[t].result.kind = "error" /\ call[t].authPosts = 1

\* C16 -- Rejected credentials are not retried by the dispatcher: when the token endpoint
\* answers with any non-success status while makeRequest is obtaining its headers, the call
\* raises the authentication error after that one authentication attempt: no backoff, no
\* resource request.
C16_RejectedCredentialsNotRetried ==
    [][\A t \in Tasks, o \in AuthFailures :
          (o.kind = "reject" /\ call[t].op = "makeRequest" /\ AuthResponseFail(t, o))
          => (/\ call'[t].pc = "done"
              /\ call'[t].result.kind = "error"
              /\ call'[t].result.message = call'[t].lastError
              /\ Includes(call'[t].lastError, << "Authentication failed: " >>)
              /\ call'[t].authPosts = 1
              /\ call'[t].sleeps = call[t].sleeps
              /\ call'[t].httpAttempts = call[t].httpAttempts)]_vars

\* C17 -- Authentication failure reporting: when the token endpoint answers with a
\* non-success status, authenticate() fails with an error that carries the status code and a
\* message taken from the body: the JSON error_description or Message field, else the raw
\* body, else the status text; when the request fails at transport level, the error keeps the
\* underlying message.
C17_AuthFailureReporting ==
    [][\A t \in Tasks, o \in AuthFailures :
          (call[t].op = "authenticate" /\ AuthResponseFail(t, o))
          => LET m == call'[t].result.message
                 fromBody == IF o.error_description # Null THEN o.error_description[1]
                             ELSE IF o.Message # Null THEN o.Message[1]
                             ELSE IF o.text # << >> THEN o.text
                             ELSE o.statusText
             IN  /\ call'[t].pc = "done" /\ call'[t].result.kind = "error"
                 /\ IF o.kind = "reject"
                    THEN Includes(m, StatusText(o.status)) /\ Includes(m, fromBody)
                    ELSE Includes(m, o.text)]_vars

C19_ThrownMessageIsBareEntry ==
    [][\A t \in Tasks, o \in AssemblyOutcomes :
          (/\ call[t].method = "POST"
           /\ o.body = [parse |-> "json", Message |-> << >>,
                         Errors |-> << << [ErrorCode |-> << "InvalidField" >>, Message |-> << "Name required" >>] >> >>]
           /\ ResourceResponse(t, o)
           /\ call'[t].pc = "done")
          => (/\ call'[t].result.kind = "error"
              /\ call'[t].result.message = << "InvalidField", ": ", "Name required" >>)]_vars

\* C19 (amended) -- For a POST whose failure response body is
\* {"Errors":[{"ErrorCode":"InvalidField","Message":"Name required"}]}, the error built for
\* that response has the message "OrderCloud API error: InvalidField: Name required", and it
\* is the error thrown to the caller when the call ends on that response.
C19_ThrownMessage ==
    [][\A t \in Tasks, o \in AssemblyOutcomes :
          (/\ call[t].method = "POST"
           /\ o.body = [parse |-> "json", Message |-> << >>,
                         Errors |-> << << [ErrorCode |-> << "InvalidField" >>, Message |-> << "Name required" >>] >> >>]
           /\ ResourceResponse(t, o))
          => (/\ call'[t].lastError = << "OrderCloud API error: ", "InvalidField", ": ", "Name required" >>
              /\ call'[t].pc = "done"
                 => (/\ call'[t].result.kind = "error"
                     /\ call'[t].result.message =
                           << "OrderCloud API error: ", "InvalidField", ": ", "Name required" >>))]_vars

\* a POST has ended on that response and thrown its error
C19_Witness ==
    \E t \in Tasks :
        /\ call[t].pc = "done" /\ call[t].method = "POST" /\ call[t].status = 400
        /\ call[t].result.kind = "error"
        /\ call[t].result.message = << "OrderCloud API error: ", "InvalidField", ": ", "Name required" >>

\* the token request of OrderCloudAuth: the fields come from the credentials read when the
\* request was made, the scope names joined by spaces, "FullAccess" for an unset or empty scope
C20_AuthorityBody ==
    \A t \in Tasks :
        call[t].pc = "auth_wait"
        => LET c == call[t].reqCred[1]
           IN  call[t].posted =
                 << [grant_type |-> "password", username |-> c.username, password |-> c.password,
                     client_id |-> c.clientId,
                     scope |-> IF c.scope = Null \/ c.scope = << << >> >> THEN << "FullAccess" >>
                               ELSE IF Len(c.scope[1]) = 1 THEN << c.scope[1][1] >>
                               ELSE << c.scope[1][1], " ", c.scope[1][2] >>] >>

\* the token request of AuthClient: the fields come from the arguments, the scope is the
\* one the client was constructed with, "FullAccess" when that is unset or empty
C20_AuthClientBody ==
    \A t \in Tasks :
        fcall[t].pc = "auth_wait"
        => LET c == fcall[t].cred[1]
           IN  fcall[t].body =
                 << [grant_type |-> "password", username |-> c.username, password |-> c.password,
                     client_id |-> c.clientId,
                     scope |-> IF facadeScope = << >> THEN << "FullAccess" >> ELSE facadeScope] >>

\* C20 -- Scope encoding: the token request body always holds grant_type=password and the
\* username, password and client_id of the credentials in use; its scope field is the
\* space-joined scope set, and is "FullAccess" when the scope is unset or empty.
C20_ScopeEncoding == C20_AuthorityBody /\ C20_AuthClientBody

\* C21 -- Benign refresh race: two concurrent authenticate() calls that both found the
\* token absent or expired each make their own exchange with the token endpoint; each
\* returns the access token the server issued to it, and after each response the cached
\* token is the one that response wrote, whole: the last write wins, the cached token is
\* one the server issued, never a mixture and never absent.
C21_BenignRefreshRace ==
    [][\A t \in Tasks :
          (/\ call[t].op = "authenticate" /\ call[t].pc = "auth_wait"
           /\ call'[t].pc = "done" /\ call'[t].result.kind = "value")
          => (/\ call'[t].authPosts = 1
              /\ issued' = issued + 1
              /\ call'[t].result.value[1].serial = issued'
              /\ token' # Null
              /\ token'[1].access_token = call'[t].result.value[1]
              /\ token'[1].expires_in \in ExpiresInChoices
              /\ tokenExpiry' = << now' + (token'[1].expires_in - 300) * 1000 >>
              /\ \A u \in Tasks \ {t} : call'[u] = call[u])]_vars

\* two calls are at the token endpoint together: both found no valid token and posted, the
\* first has just returned its token and cached it, the second is still to be answered
C21_Witness ==
    \E t, u \in Tasks :
        /\ t # u /\ issued = 1
        /\ call[u].pc = "auth_wait" /\ call[u].op = "authenticate" /\ call[u].authPosts = 1
        /\ call[t].pc = "done" /\ call[t].op = "authenticate" /\ call[t].authPosts = 1
        /\ call[t].result.kind = "value"
        /\ token # Null /\ token[1].access_token = call[t].result.value[1]
        /\ token[1].expires_in = 600

\* C22 -- A 2xx response ends the attempt loop: the call returns the decoded payload after
\* that attempt, with no further attempt and no sleep, also when the successful response has
\* an empty body (a DELETE, say), where it returns normally instead of raising; and a call
\* that fails returns no payload.
C22_SuccessEndsLoop ==
    [][\A t \in Tasks :
          /\ \A o \in AssemblyOutcomes :
                (o.kind = "http" /\ o.status \in 200..299 /\ ResourceResponse(t, o))
                => (/\ call'[t].pc = "done"
                    /\ call'[t].result.kind = "value"
                    /\ call'[t].httpAttempts = call[t].httpAttempts
                    /\ call'[t].sleeps = call[t].sleeps)
          /\ (call'[t].pc = "done" /\ call'[t].result.kind = "error")
             => call'[t].result.value = << >>]_vars

\* C23 -- Token freshness per attempt: every resource HTTP attempt of makeRequest, each
\* retry included, follows its own getAuthHeaders() call and carries the token cached at that
\* moment, which the server has not yet expired; and when the cached token has expired (or
\* is gone) by the end of a backoff sleep, the next attempt goes to the token endpoint before
\* it sends anything.
C23_TokenFreshnessPerAttempt ==
    [][\A t \in Tasks :
          /\ call'[t].httpAttempts > call[t].httpAttempts
             => (/\ call'[t].httpAttempts = call[t].httpAttempts + 1
                 /\ call'[t].pc = "res_wait"
                 /\ call[t].pc \in { "idle", "sleep", "auth_wait" }
                 /\ call[t].pc \in { "idle", "sleep" }
                    => (token' = token /\ tokenExpiry # Null /\ now' < tokenExpiry[1])
                 /\ token' # Null
                 /\ call'[t].sent =
                       << [Authorization |-> [scheme |-> "Bearer", token |-> token'[1].access_token],
                           ContentType |-> "application/json"] >>
                 /\ now' < token'[1].access_token.iat + token'[1].expires_in * 1000)
          /\ (/\ call[t].pc = "sleep" /\ call'[t].pc # "sleep"
              /\ credentials # Null
              /\ (token = Null \/ now' >= tokenExpiry[1]))
             => (/\ call'[t].pc = "auth_wait" /\ call'[t].authPosts = 1
                 /\ call'[t].httpAttempts = call[t].httpAttempts)]_vars

\* a retry is on the wire with a token obtained in this attempt, after the token of the
\* first attempt had expired during the sleep
C23_Witness ==
    \E t \in Tasks :
        /\ call[t].pc = "res_wait" /\ call[t].attempt = 1 /\ call[t].httpAttempts = 2
        /\ call[t].sleeps = << 1000 >> /\ call[t].authPosts = 1
        /\ issued = 2 /\ token # Null
        /\ call[t].sent[1].Authorization.token = token[1].access_token
        /\ token[1].access_token.serial = 2 /\ token[1].access_token.iat = 1000

\* C24 -- Token and expiry are replaced together: in every reachable state, whatever the
\* interleaving of authenticate(), clearAuth() and setCredentials(), the token is absent
\* exactly when the expiry is absent, and a present expiry is the issue time of the token
\* now cached plus its expires_in less the 300 s margin, never the expiry of another token.
C24_TokenAndExpiryTogether ==
    /\ token = Null <=> tokenExpiry = Null
    /\ token # Null
       => tokenExpiry[1] = token[1].access_token.iat
                              + (token[1].expires_in - SafetyMarginSeconds) * MsPerSecond

\* a second token, issued later with another lifetime while a call is still in flight,
\* has replaced the first one and the expiry is its own
C24_Witness ==
    /\ token # Null
    /\ token[1].access_token.serial = 2
    /\ token[1].access_token.iat = 1000
    /\ token[1].expires_in = 600
    /\ tokenExpiry = Some(301000)
    /\ \E t \in Tasks : call[t].pc = "auth_wait"

\* C25 -- A failed authentication does not corrupt the session: the step in which
\* authenticate() fails, by a rejection of the token endpoint or a transport failure, leaves
\* credentials, cached token and expiry exactly as they were and raises the wrapped error
\* to its caller; and an authenticate() made after such a failure, when the token endpoint
\* answers it, stores and returns the new token as if nothing had failed.
C25_FailedAuthKeepsSession ==
    [][\A t \in Tasks :
          /\ (/\ call[t].pc = "auth_wait" /\ call'[t].pc # "auth_wait" /\ issued' = issued
              /\ \E o \in AuthFailures : AuthResponseFail(t, o))
             => (/\ UNCHANGED <<credentials, token, tokenExpiry>>
                 /\ call'[t].pc \in { "done", "sleep" }
                 /\ call'[t].lastError # << >>
                 /\ Head(call'[t].lastError) = Head(WrapAuthError(<< >>))
                 /\ call'[t].pc = "done" => call'[t].result = Error(call'[t].lastError))
          /\ (/\ call[t].pc = "auth_wait"
              /\ call[t].lastError # << >>
              /\ Head(call[t].lastError) = Head(WrapAuthError(<< >>))
              /\ \E e \in ExpiresInChoices : AuthResponseOk(t, e))
             => (/\ token' # Null
                 /\ token'[1].access_token.serial = issued + 1
                 /\ tokenExpiry' = Some(ComputeExpiry(now, token'[1].expires_in))
                 /\ call'[t].pc = "res_wait"
                 /\ call'[t].sent = Some(AuthHeaders(token'[1].access_token)))]_vars

\* the first attempt's authentication failed on the transport while an expired token was
\* cached; after the backoff the next authentication succeeded and its token is in use
C25_Witness ==
    /\ call[1].pc = "res_wait"
    /\ call[1].lastError = WrapAuthError(<< "fetch failed" >>)
    /\ call[1].sleeps = << 1000 >>
    /\ call[1].httpAttempts = 1
    /\ token # Null
    /\ token[1].access_token.serial = 2
    /\ call[1].sent = Some(AuthHeaders(token[1].access_token))

\* C26 -- Token state machine: a present token becomes absent only in a clearAuth() step;
\* the passing of time (also past the expiry), a failed authentication, a resource response
\* and the dispatcher's retries leave the cached token as it is; and a present token is
\* replaced only by the token of a token-endpoint response, the one issued last.
C26_TokenStateMachine ==
    [][/\ (token # Null /\ token' = Null) => ClearAuth
       /\ (\/ now' # now
           \/ \E t \in Tasks :
                 \/ call[t].pc = "auth_wait" /\ call'[t].pc # "auth_wait" /\ issued' = issued
                 \/ call[t].pc \in { "res_wait", "sleep", "done" } /\ call'[t] # call[t])
          => UNCHANGED <<token, tokenExpiry>>
       /\ (token' # token /\ token' # Null)
          => (/\ \E t \in Tasks, e \in ExpiresInChoices : AuthResponseOk(t, e)
              /\ token'[1].access_token.serial = issued'
              /\ issued' = issued + 1
              /\ token'[1].access_token.iat = now)]_vars

\* a token that expired is still cached after the refresh failed and the dispatcher went to
\* sleep before its retry
C26_Witness ==
    /\ token # Null
    /\ now >= tokenExpiry[1]
    /\ call[1].pc = "sleep"
    /\ call[1].lastError = WrapAuthError(<< "fetch failed" >>)
    /\ call[1].authPosts = 1

\* C27 -- Header merge: the header map makeRequest hands to fetch with each resource request
\* holds the keys of the dispatcher (Authorization, Content-Type) and the keys the caller
\* supplied; a key the caller supplied carries the caller's value, every other key the
\* dispatcher's; so Authorization is the Bearer value of the token now cached whenever the
\* caller supplied no Authorization of its own.
C27_HeaderMerge ==
    [][\A t \in Tasks :
          call'[t].httpAttempts > call[t].httpAttempts
          => LET sent == call'[t].sent[1]
                 own == call'[t].headers
                 keys == IF own = Null THEN { } ELSE DOMAIN own[1]
                 mine == [Authorization |-> [scheme |-> "Bearer", token |-> token'[1].access_token],
                          ContentType |-> "application/json"]
             IN  /\ token' # Null
                 /\ call'[t].sent # Null
                 /\ DOMAIN sent = { "Authorization", "ContentType" } \cup keys
                 /\ \A k \in keys : sent[k] = own[1][k]
                 /\ \A k \in { "Authorization", "ContentType" } \ keys : sent[k] = mine[k]
                 /\ "Authorization" \notin keys
                    => sent["Authorization"] = [scheme |-> "Bearer", token |-> token'[1].access_token]]_vars

\* a retry of a call whose caller supplied all three keys: the request carries the caller's
\* Authorization and Content-Type in place of the dispatcher's, and the caller's extra key
C27_Witness ==
    /\ call[1].pc = "res_wait"
    /\ call[1].httpAttempts = 2
    /\ token # Null
    /\ token[1].access_token.serial = 2
    /\ call[1].sent[1]["Authorization"] = CallerAuthorization
    /\ call[1].sent[1]["ContentType"] = "text/plain"
    /\ call[1].sent[1]["XTrace"] = "abc"

\* C28 -- Termination of makeRequest: when every token request and every resource request
\* is answered in the end, with success or failure, every makeRequest call under way ends
\* with a payload or with an error; a call makes attempts with index 0..retryAttempts and no
\* other, and sleeps only after an attempt that is not the last, so at most retryAttempts times.
C28_Termination ==
    /\ [](\A t \in Tasks :
            call[t].op = "makeRequest"
            => (/\ call[t].pc \in { "auth_wait", "res_wait" } => call[t].attempt <= retryAttempts
                /\ call[t].pc = "sleep" => call[t].attempt < retryAttempts
                /\ Len(call[t].sleeps) <= retryAttempts
                /\ call[t].httpAttempts <= retryAttempts + 1
                /\ call[t].attempt <= retryAttempts + 1))
    /\ \A t \in Tasks :
          (call[t].op = "makeRequest" /\ call[t].pc \in { "auth_wait", "res_wait", "sleep" })
          ~> (call[t].pc = "done" /\ call[t].result.kind \in { "value", "error" })

\* a call that used every attempt: four requests, three sleeps, and the last error raised
C28_Witness ==
    /\ call[1].op = "makeRequest"
    /\ call[1].pc = "done"
    /\ call[1].result = Error(call[1].lastError)
    /\ call[1].httpAttempts = retryAttempts + 1
    /\ call[1].sleeps = << 1000, 2000, 4000 >>
    /\ call[1].attempt = retryAttempts + 1
    /\ now = 7000

\* C29 -- clearAuth() is not undone by an authentication already in flight: once clearAuth()
\* has returned and no authenticate() has been started since, no token is cached in the next
\* state either, and an isAuthenticated() made then answers false, whatever responses arrive
\* for the authenticate() calls that were in flight.
C29_ClearAuthNotUndone ==
    [][(token = Null /\ issued >= 1)
          => (/\ token' = Null
              /\ \A t \in Tasks :
                    (call'[t].op = "isAuthenticated" /\ call'[t].pc = "done")
                    => call'[t].result = Value(FALSE))]_vars

\* C30 -- Token matches current credentials: in every reachable state, whatever the
\* interleaving of setCredentials() with authenticate() calls in flight, a cached token was
\* issued to the user of the credentials now stored, and the token an authenticate() call
\* returns was issued to that user too.
C30_TokenMatchesCredentials ==
    /\ token # Null
       => (credentials # Null /\ token[1].access_token.sub = credentials[1].username)
    /\ \A t \in Tasks :
          (call[t].op = "authenticate" /\ call[t].pc = "done" /\ call[t].result.kind = "value")
          => (credentials # Null /\ call[t].result.value[1].sub = credentials[1].username)

\* C31 -- Facade token consistency under concurrent authentications: in every state where
\* no authenticate call of the facade client is in flight, whatever the number and the order
\* of the calls that completed or failed before, the auth sub-client and the eight resource
\* facades hold the same access token, the one of the last success, or all hold none.
C31_FacadeTokenConsistency ==
    (\A t \in Tasks : fcall[t].pc = "idle")
    => (/\ \A n \in ClientNames : accessToken[n] = accessToken["auth"]
        /\ accessToken["auth"] = lastAuth)

\* two authenticate calls ran concurrently and both succeeded: nothing is in flight and all
\* nine clients hold the token of the second success
C31_Witness ==
    /\ \A t \in Tasks : fcall[t].pc = "idle"
    /\ fIssued = 2
    /\ \A n \in ClientNames : accessToken[n] # Null /\ accessToken[n][1].serial = 2

\* C32 -- A failed authentication through the facade client, the constructor's own or one of
\* the authenticate tool, changes no access token: the auth sub-client and every facade keep
\* the token they had or stay without one, the failing call ends, and the constructed
\* client goes on as before (the constructor has returned and its catch takes the error).
C32_FailedFacadeAuthKeepsTokens ==
    [][\A t \in Tasks :
          (fcall[t].pc = "auth_wait" /\ fcall'[t].pc = "idle" /\ fIssued' = fIssued)
          => (/\ FacadeAuthFail(t)
              /\ \A n \in ClientNames : accessToken'[n] = accessToken[n]
              /\ lastAuth' = lastAuth
              /\ fcall'[t] = IdleAuth
              /\ \A u \in Tasks \ { t } : fcall'[u] = fcall[u])]_vars

\* the constructor's auto-authentication failed while a tool call with other credentials
\* succeeded: nothing is in flight and every client holds the token of the tool call
C32_Witness ==
    /\ \A t \in Tasks : fcall[t].pc = "idle"
    /\ fIssued = 1
    /\ lastAuth # Null /\ lastAuth[1].sub = "v"
    /\ \A n \in ClientNames : accessToken[n] = lastAuth

\* C33 -- Unauthenticated facade calls fail fast: an operation of a resource facade invoked
\* while that facade holds no access token raises "Not authenticated" and sends no HTTP
\* request; an operation invoked while it holds one sends its request with the header
\* Authorization: Bearer <that token>; so no resource request goes out without the header.
C33_UnauthenticatedFailFast ==
    [][\A f \in FacadeNames :
          (lastRequest' # lastRequest /\ lastRequest'.facade = f)
          => (/\ FacadeRequest(f)
              /\ IF accessToken[f] = Null
                 THEN /\ ~lastRequest'.sent
                      /\ lastRequest'.raised = Some(NotAuthenticatedMsg)
                      /\ lastRequest'.authorization = Null
                 ELSE /\ lastRequest'.sent
                      /\ lastRequest'.raised = Null
                      /\ lastRequest'.authorization = << [scheme |-> "Bearer", token |-> accessToken[f][1]] >>)]_vars

\* an operation invoked before the constructor's auto-authentication has completed
C33_Witness ==
    /\ lastRequest.facade = "catalogs"
    /\ ~lastRequest.sent
    /\ lastRequest.raised = Some(NotAuthenticatedMsg)
    /\ fIssued = 0
    /\ fcall[1].pc = "auth_wait"
    /\ fcall[1].cred = Some(ConstructorOptions)
    /\ accessToken["catalogs"] = Null

\* C34 -- Short-lived tokens are never cached as valid: a token granted with expires_in of
\* 300 s or less is stored with an expiry that is not in the future, so isAuthenticated()
\* is false from the moment it is stored, and every authenticate() made while it is the
\* cached token, a direct one or the one of a dispatcher attempt, posts a new token request.
C34_ShortLivedNeverValid ==
    [][(token' # Null /\ token'[1].expires_in <= SafetyMarginSeconds)
          => (/\ tokenExpiry' # Null
              /\ tokenExpiry'[1] <= token'[1].access_token.iat
              /\ tokenExpiry'[1] <= now'
              /\ ~IsAuthenticated(now)'
              /\ \A t \in Tasks :
                    /\ (call'[t].op = "isAuthenticated" /\ call'[t].pc = "done")
                       => call'[t].result = Value(FALSE)
                    /\ (/\ token' = token /\ credentials # Null
                        /\ call[t].pc \in { "idle", "sleep" }
                        /\ call'[t].pc \notin { "idle", "sleep" }
                        /\ call'[t].op \in { "authenticate", "makeRequest" })
                       => (/\ call'[t].pc = "auth_wait"
                           /\ call'[t].authPosts = 1
                           /\ call'[t].posted = Some(TokenRequestBody(credentials[1]))))]_vars

\* a token granted for 299 s is cached, isAuthenticated() has just answered false, and the
\* second attempt of a makeRequest call is fetching another token
C34_Witness ==
    /\ token # Null /\ token[1].expires_in = 299
    /\ issued = 2
    /\ call[1].op = "makeRequest" /\ call[1].pc = "auth_wait" /\ call[1].attempt = 1
    /\ call[1].httpAttempts = 1
    /\ call[2].op = "isAuthenticated" /\ call[2].pc = "done" /\ call[2].result = Value(FALSE)
    /\ now = token[1].access_token.iat

\* C35 -- batchCreateProducts works through its input in consecutive batches of at most 10:
\* at most 10 createProduct calls are started in one step and they are the next positions
\* of the input; a call of a later batch is started only when every call of the batches
\* before it has succeeded; once a call of the awaited batch has failed the function ends
\* with that error and starts nothing more; and when it returns, the results are the
\* created products of the whole input, in input order.
C35_BatchesOfTen ==
    [][LET n == Len(batch'.products)
           started == { j \in 1..Len(batch.calls) : batch.calls[j] = "unstarted" /\ batch'.calls[j] = "pending" }
                      \cup (IF batch.pc = "idle" THEN { j \in 1..n : batch'.calls[j] = "pending" } ELSE { })
       IN  /\ Cardinality(started) <= batchSize
           /\ Cardinality({ j \in 1..n : batch'.calls[j] = "pending" }) <= batchSize
           /\ started # { }
              => (/\ \E k \in 0..n : started = { j \in 1..n : k * batchSize < j /\ j <= (k + 1) * batchSize }
                  /\ \A j \in started, m \in 1..n :
                        (m - 1) \div batchSize < (j - 1) \div batchSize => batch'.calls[m] = "ok"
                  /\ \A m \in 1..n : batch'.calls[m] # "failed"
                  /\ batch'.error = Null)
           /\ (batch.pc = "waiting" /\ batch'.pc = "done" /\ batch'.error # Null)
              => (/\ started = { }
                  /\ \E j \in 1..n : /\ batch.calls[j] = "pending" /\ batch'.calls[j] = "failed"
                                     /\ batch'.error = Some(batch.products[j])
                  /\ batch'.results = batch.results)
           /\ batch.pc = "done" => (started = { } /\ batch'.pc = "done" /\ batch'.results = batch.results)
           /\ (batch'.pc = "done" /\ batch'.error = Null)
              => (/\ batch'.results = [k \in 1..n |-> Created(batch'.products[k])]
                  /\ \A m \in 1..n : batch'.calls[m] = "ok")]_vars

\* twelve products: the third call of the first batch failed, the function ended with its
\* error, the other nine calls of that batch settled later, and the second batch never began
C35_Witness ==
    /\ batch.pc = "done"
    /\ Len(batch.products) = 12
    /\ batch.calls[3] = "failed"
    /\ batch.error = Some(batch.products[3])
    /\ \A j \in (1..10) \ { 3 } : batch.calls[j] = "ok"
    /\ batch.calls[11] = "unstarted" /\ batch.calls[12] = "unstarted"
    /\ batch.results = << >>

\* C36 -- healthCheck never raises: when its probe has ended, after whatever retries the
\* dispatcher made, healthCheck returns a record: status "unhealthy" with authenticated
\* false if the probe failed, status "healthy" with authenticated equal to what
\* isAuthenticated() answers at that moment if the probe succeeded.
C36_HealthCheckNeverRaises ==
    [][\A t \in Tasks :
          (call[t].op = "healthCheck" /\ call[t].pc = "done" /\ call'[t].pc # "done")
          => (/\ health' # Null
              /\ health'[1].kind = "returned"
              /\ health'[1].timestamp = now
              /\ call[t].result.kind \in { "value", "error" }
              /\ call[t].result.kind = "error"
                 => (health'[1].status = "unhealthy" /\ health'[1].authenticated = FALSE)
              /\ call[t].result.kind = "value"
                 => (/\ health'[1].status = "healthy"
                     /\ health'[1].authenticated = (token # Null /\ tokenExpiry # Null /\ now < tokenExpiry[1]))
              /\ call'[t] = IdleCall)]_vars

\* the probe failed after its three sleeps while a valid token is cached: the record says
\* unhealthy and not authenticated
C36_Witness ==
    /\ health = Some([kind |-> "returned", status |-> "unhealthy", timestamp |-> 7000, authenticated |-> FALSE])
    /\ IsAuthenticated(now)
    /\ now = 7000
    /\ call[1].pc = "idle"

\* C37 -- The debug log is bounded: after any sequence of log and clearLogs calls the stored
\* log holds at most maxLogs entries, which are the most recent entries logged since the
\* last clearLogs, in logging order; getLogs returns an array with the same entries and
\* leaves the stored log alone, and what the caller does to that array does not change the
\* stored log.
C37_DebugLogBounded ==
    /\ [](LET first == IF debug.logged - maxLogs + 1 > debug.clearedAt + 1
                       THEN debug.logged - maxLogs + 1 ELSE debug.clearedAt + 1
          IN  /\ Len(debug.logs) <= maxLogs
              /\ debug.logs = [k \in 1..(debug.logged - first + 1) |-> first + k - 1])
    /\ [][/\ (debug'.logged = debug.logged /\ debug'.clearedAt = debug.clearedAt)
             => debug'.logs = debug.logs
          /\ (debug'.copy # Null /\ debug'.mutations = 0) => debug'.copy = Some(debug.logs)]_vars

\* 103 entries were logged without a clear: the log holds entries 4..103; a caller got the
\* array and pushed an entry of its own on it
C37_Witness ==
    /\ debug.logged = 103 /\ debug.clearedAt = 0
    /\ Len(debug.logs) = maxLogs
    /\ debug.logs[1] = 4 /\ debug.logs[maxLogs] = 103
    /\ debug.copy = Some(Append(debug.logs, 0))

\* C38 -- Missing configuration is fatal before any authentication: when the username, the
\* password or the client ID is absent (or empty) at start-up, main.ts exits and
\* initializeOrderCloudAuth raises with no facade client constructed, no credentials stored
\* on the singleton and no token request sent, by the facade or by the singleton.
C38_MissingConfigurationFatal ==
    (Falsy(boot.env.username) \/ Falsy(boot.env.password) \/ Falsy(boot.env.clientId))
    => /\ boot.pc \in { "start", "exited" }
       /\ boot.helper \in { "none", "raised" }
       /\ boot.client = FALSE
       /\ credentials = Null
       /\ token = Null
       /\ issued = 0 /\ fIssued = 0
       /\ \A t \in Tasks : fcall[t].pc = "idle" /\ call[t].pc # "auth_wait"

\* only the client ID is missing: initializeOrderCloudAuth has raised and main.ts has exited
C38_Witness ==
    /\ ~Falsy(boot.env.username) /\ ~Falsy(boot.env.password) /\ boot.env.clientId = Null
    /\ boot.helper = "raised"
    /\ boot.pc = "exited"

====
